---- MODULE Spec2Model ----
(***************************************************************************)
(* State-machine model of the JSON formatter core: JSONValidator,          *)
(* JSONFormatter, JSONProcessor and ErrorInfo, together with the host      *)
(* primitives they wrap (JSON.parse, JSON.stringify, Blob size, trim).     *)
(*                                                                         *)
(* A JavaScript string is a sequence of characters; every character is a   *)
(* one-element TLA+ string, except the two-byte character "U+00E9".        *)
(* A JavaScript null is the empty tuple Null, a present value x is the     *)
(* one-element tuple Some(x).                                              *)
(***************************************************************************)
EXTENDS Integers, Sequences, FiniteSets, TLC

(***************************************************************************)
(* Bounds of the model.                                                    *)
(***************************************************************************)
\* longest text enumerated exhaustively over TextAlphabet
MaxLen == 3
\* what performance.now() can measure for one timed section, in clock ticks:
\* nothing, or one tick
Ticks == {0, 1}

(***************************************************************************)
(* Values shared by all components.                                        *)
(***************************************************************************)
Null == << >>
Some(x) == << x >>

\* the character of two UTF-8 bytes
EAcute == "U+00E9"

Digits == {"0", "1", "2", "3", "4", "5", "6", "7", "8", "9"}
Whitespace == {" ", "\n"}
\* every character a modelled text can hold
Alphabet == {"[", "]", "{", "}", ",", ":", "\"", "\\", "/", "a", "b", "x", EAcute,
             ".", "e", "E", "+", "-", "n", "u", "l"}
              \cup Digits \cup Whitespace
\* the characters of the exhaustively enumerated texts
TextAlphabet == {"[", "]", "\"", "1", " ", "\n", EAcute}

RECURSIVE StringsUpTo(_, _)
StringsUpTo(alphabet, n) ==
  IF n = 0 THEN {<< >>}
  ELSE LET shorter == StringsUpTo(alphabet, n - 1)
       IN  shorter \cup {Append(s, c) : s \in shorter, c \in alphabet}

\* the string of n copies of the character c
Repeat(c, n) == [i \in 1..n |-> c]

(***************************************************************************)
(* Host primitives on strings.                                             *)
(***************************************************************************)
\* UTF-8 width of one character
ByteWidth(c) == IF c = EAcute THEN 2 ELSE 1

\* new Blob([text]).size for a string: its UTF-8 byte length
ByteLength(s) == Len(s) + Len(SelectSeq(s, LAMBDA c : ByteWidth(c) = 2))

\* String.prototype.trim
RECURSIVE TrimStart(_)
TrimStart(s) ==
  IF s # << >> /\ Head(s) \in Whitespace THEN TrimStart(Tail(s)) ELSE s

RECURSIVE TrimEnd(_)
TrimEnd(s) ==
  IF s # << >> /\ s[Len(s)] \in Whitespace
  THEN TrimEnd(SubSeq(s, 1, Len(s) - 1))
  ELSE s

Trim(s) == TrimEnd(TrimStart(s))

(***************************************************************************)
(* JSON values.  Every value is a record of the same shape; the fields a   *)
(* type does not use hold their empty value.  An object keeps its members  *)
(* as parallel sequences keys/items in property enumeration order.         *)
(***************************************************************************)
JNumber(n) == [t |-> "number", num |-> n, str |-> << >>, keys |-> << >>, items |-> << >>]
JString(s) == [t |-> "string", num |-> 0, str |-> s, keys |-> << >>, items |-> << >>]
JArray(vs) == [t |-> "array", num |-> 0, str |-> << >>, keys |-> << >>, items |-> vs]
JObject(ks, vs) == [t |-> "object", num |-> 0, str |-> << >>, keys |-> ks, items |-> vs]
JNull == [t |-> "null", num |-> 0, str |-> << >>, keys |-> << >>, items |-> << >>]

DigitValue(c) ==
  CASE c = "1" -> 1 [] c = "2" -> 2 [] c = "3" -> 3 [] c = "4" -> 4 [] c = "5" -> 5
    [] c = "6" -> 6 [] c = "7" -> 7 [] c = "8" -> 8 [] c = "9" -> 9 [] OTHER -> 0
DigitChar(d) == << "0", "1", "2", "3", "4", "5", "6", "7", "8", "9" >>[d + 1]

RECURSIVE DecimalValue(_)
DecimalValue(ds) ==
  IF ds = << >> THEN 0
  ELSE 10 * DecimalValue(SubSeq(ds, 1, Len(ds) - 1)) + DigitValue(ds[Len(ds)])

RECURSIVE DecimalString(_)
DecimalString(n) ==
  IF n < 10 THEN << DigitChar(n) >>
  ELSE Append(DecimalString(n \div 10), DigitChar(n % 10))

(***************************************************************************)
(* Numbers.  A Number that is not negative is zero, Infinity, or the       *)
(* value 0.d1...dk * 10^point of its significant decimal digits d1...dk    *)
(* (d1 and dk not "0"): the digits and the exponent Number::toString       *)
(* works from.  The reading is exact for numerals of at most 15            *)
(* significant digits that are zero, at least 1e-300, or beyond the        *)
(* largest double.                                                         *)
(***************************************************************************)
Zero == [inf |-> FALSE, digits |-> << >>, point |-> 0]
Infinity == [inf |-> TRUE, digits |-> << >>, point |-> 0]
Finite(ds, point) == [inf |-> FALSE, digits |-> ds, point |-> point]

RECURSIVE LeadingZeros(_)
LeadingZeros(ds) ==
  IF ds # << >> /\ Head(ds) = "0" THEN 1 + LeadingZeros(Tail(ds)) ELSE 0

RECURSIVE DropTrailingZeros(_)
DropTrailingZeros(ds) ==
  IF ds # << >> /\ ds[Len(ds)] = "0" THEN DropTrailingZeros(SubSeq(ds, 1, Len(ds) - 1))
  ELSE ds

\* the first digits of the least decimal that rounds to Infinity,
\* 0.17976931348623158... * 10^309
LeastInfinite ==
  << "1", "7", "9", "7", "6", "9", "3", "1", "3", "4", "8", "6", "2", "3", "1", "5", "8" >>
\* the decimal exponents, in this notation, of that number and of the
\* numbers too small for the least double
InfinitePoint == 309
LeastPoint == 0 - 323
\* Number::toString: the notation changes at 1e21 and at 1e-6
PlainDigits == 21
SmallPoint == 0 - 6

RECURSIVE DigitsAtLeast(_, _, _)
\* 0.ds >= 0.bound, comparing from digit i on
DigitsAtLeast(ds, bound, i) ==
  IF i > Len(bound) THEN TRUE
  ELSE LET x == IF i <= Len(ds) THEN DigitValue(ds[i]) ELSE 0
           y == DigitValue(bound[i])
       IN  IF x > y THEN TRUE
           ELSE IF x < y THEN FALSE
           ELSE DigitsAtLeast(ds, bound, i + 1)

\* the Number 0.ds * 10^point, ds without leading or trailing zeros
RoundToDouble(ds, point) ==
  IF ds = << >> \/ point < LeastPoint THEN Zero
  ELSE IF point > InfinitePoint
          \/ (point = InfinitePoint /\ DigitsAtLeast(ds, LeastInfinite, 1))
  THEN Infinity
  ELSE Finite(ds, point)

\* the Number a numeral denotes: integer digits, fraction digits, exponent
ToNumber(int, frac, exp) ==
  RoundToDouble(DropTrailingZeros(SubSeq(int \o frac, LeadingZeros(int \o frac) + 1,
                                         Len(int) + Len(frac))),
                Len(int) - LeadingZeros(int \o frac) + exp)

\* Number::toString(10) of a finite Number
NumberToString(n) ==
  LET k == Len(n.digits)
      e == n.point - 1
      exponent == << "e", IF e < 0 THEN "-" ELSE "+" >>
                    \o DecimalString(IF e < 0 THEN 0 - e ELSE e)
  IN  IF k = 0 THEN << "0" >>
      ELSE IF k <= n.point /\ n.point <= PlainDigits
      THEN n.digits \o Repeat("0", n.point - k)
      ELSE IF 0 < n.point /\ n.point <= PlainDigits
      THEN SubSeq(n.digits, 1, n.point) \o << "." >> \o SubSeq(n.digits, n.point + 1, k)
      ELSE IF SmallPoint < n.point /\ n.point <= 0
      THEN << "0", "." >> \o Repeat("0", 0 - n.point) \o n.digits
      ELSE IF k = 1 THEN n.digits \o exponent
      ELSE << n.digits[1], "." >> \o SubSeq(n.digits, 2, k) \o exponent

\* an object key that JavaScript treats as an array index
IsIndexKey(k) ==
  /\ k # << >>
  /\ \A i \in DOMAIN k : k[i] \in Digits
  /\ (k[1] = "0" => Len(k) = 1)

\* o[key] = val on an object under construction: a repeated key keeps its
\* place and takes the new value; index keys enumerate first, ascending
DefineProperty(ks, vs, key, val) ==
  IF \E i \in DOMAIN ks : ks[i] = key
  THEN LET i == CHOOSE j \in DOMAIN ks : ks[j] = key
       IN  [keys |-> ks, items |-> [vs EXCEPT ![i] = val]]
  ELSE LET before ==
             IF IsIndexKey(key)
             THEN Cardinality({j \in DOMAIN ks :
                     IsIndexKey(ks[j]) /\ DecimalValue(ks[j]) < DecimalValue(key)})
             ELSE Len(ks)
       IN  [keys |-> SubSeq(ks, 1, before) \o << key >> \o SubSeq(ks, before + 1, Len(ks)),
            items |-> SubSeq(vs, 1, before) \o << val >> \o SubSeq(vs, before + 1, Len(vs))]

(***************************************************************************)
(* JSON.parse: a recursive-descent reading of RFC 8259 over Alphabet.      *)
(* A step returns the value read and the index after it, or the kind of    *)
(* failure ("token": a character that cannot appear there, "end": the text *)
(* stopped too early) with its zero-based offset.                          *)
(***************************************************************************)
ParseOk(v, next) == [ok |-> TRUE, val |-> v, next |-> next, kind |-> "none", pos |-> 0]
ParseFail(kind, pos) == [ok |-> FALSE, val |-> JNull, next |-> 0, kind |-> kind, pos |-> pos]

\* where the text stops or a character is wrong at index i
FailAt(s, i) == IF i > Len(s) THEN ParseFail("end", Len(s)) ELSE ParseFail("token", i - 1)

RECURSIVE SkipWs(_, _)
SkipWs(s, i) == IF i <= Len(s) /\ s[i] \in Whitespace THEN SkipWs(s, i + 1) ELSE i

RECURSIVE DigitsEnd(_, _)
\* the index after the run of digits that starts at i
DigitsEnd(s, i) == IF i <= Len(s) /\ s[i] \in Digits THEN DigitsEnd(s, i + 1) ELSE i

\* a numeral whose integer part ends before index a and whose fraction, if
\* any, ends before index b: the exponent part
ParseExponent(s, i, a, b) ==
  LET signed == b + 1 <= Len(s) /\ s[b + 1] \in {"+", "-"}
      c == IF signed THEN b + 2 ELSE b + 1
      d == DigitsEnd(s, c)
      int == SubSeq(s, i, a - 1)
      frac == SubSeq(s, a + 1, b - 1)
      magnitude == DecimalValue(SubSeq(s, c, d - 1))
  IN  IF b > Len(s) \/ s[b] \notin {"e", "E"}
      THEN ParseOk(JNumber(ToNumber(int, frac, 0)), b)
      ELSE IF d = c THEN FailAt(s, c)
      ELSE ParseOk(JNumber(ToNumber(int, frac,
                                    IF signed /\ s[b + 1] = "-" THEN 0 - magnitude
                                    ELSE magnitude)), d)

\* a numeral whose integer part ends before index a: the fraction part
ParseFraction(s, i, a) ==
  IF a > Len(s) \/ s[a] # "." THEN ParseExponent(s, i, a, a)
  ELSE IF DigitsEnd(s, a + 1) = a + 1 THEN FailAt(s, a + 1)
  ELSE ParseExponent(s, i, a, DigitsEnd(s, a + 1))

\* s[i] is a digit; an integer part that starts with 0 is that 0 alone
ParseNumber(s, i) ==
  ParseFraction(s, i, IF s[i] = "0" THEN i + 1 ELSE DigitsEnd(s, i))

\* s[i] is the n of the literal null
ParseNull(s, i) ==
  IF i + 1 > Len(s) \/ s[i + 1] # "u" THEN FailAt(s, i + 1)
  ELSE IF i + 2 > Len(s) \/ s[i + 2] # "l" THEN FailAt(s, i + 2)
  ELSE IF i + 3 > Len(s) \/ s[i + 3] # "l" THEN FailAt(s, i + 3)
  ELSE ParseOk(JNull, i + 4)

RECURSIVE ReadString(_, _, _)
\* the string whose content goes on at index i, acc its characters so far:
\* a backslash escapes a quote, a backslash or a solidus and writes a line
\* feed as \n (the other escapes name characters outside Alphabet); a raw
\* line feed is not allowed
ReadString(s, i, acc) ==
  IF i > Len(s) THEN FailAt(s, i)
  ELSE IF s[i] = "\"" THEN ParseOk(JString(acc), i + 1)
  ELSE IF s[i] = "\n" THEN FailAt(s, i)
  ELSE IF s[i] # "\\" THEN ReadString(s, i + 1, Append(acc, s[i]))
  ELSE IF i + 1 > Len(s) THEN FailAt(s, i + 1)
  ELSE IF s[i + 1] \in {"\"", "\\", "/"} THEN ReadString(s, i + 2, Append(acc, s[i + 1]))
  ELSE IF s[i + 1] = "n" THEN ReadString(s, i + 2, Append(acc, "\n"))
  ELSE FailAt(s, i + 1)

\* s[i] is the opening quote
ParseString(s, i) == ReadString(s, i + 1, << >>)

RECURSIVE ParseValue(_, _)
RECURSIVE ParseElements(_, _, _)
RECURSIVE ParseMembers(_, _, _, _)

\* the elements of an array from index i (a value must start there)
ParseElements(s, i, acc) ==
  LET v == ParseValue(s, i)
      k == SkipWs(s, v.next)
  IN  IF ~v.ok THEN v
      ELSE IF k <= Len(s) /\ s[k] = ","
           THEN ParseElements(s, SkipWs(s, k + 1), Append(acc, v.val))
      ELSE IF k <= Len(s) /\ s[k] = "]"
           THEN ParseOk(JArray(Append(acc, v.val)), k + 1)
      ELSE FailAt(s, k)

\* the members of an object from index i (a key must start there)
ParseMembers(s, i, ks, vs) ==
  IF i > Len(s) \/ s[i] # "\"" THEN FailAt(s, i)
  ELSE
    LET key == ParseString(s, i)
        c == SkipWs(s, key.next)
    IN  IF ~key.ok THEN key
        ELSE IF c > Len(s) \/ s[c] # ":" THEN FailAt(s, c)
        ELSE
          LET v == ParseValue(s, SkipWs(s, c + 1))
              k == SkipWs(s, v.next)
              o == DefineProperty(ks, vs, key.val.str, v.val)
          IN  IF ~v.ok THEN v
              ELSE IF k <= Len(s) /\ s[k] = ","
                   THEN ParseMembers(s, SkipWs(s, k + 1), o.keys, o.items)
              ELSE IF k <= Len(s) /\ s[k] = "}"
                   THEN ParseOk(JObject(o.keys, o.items), k + 1)
              ELSE FailAt(s, k)

\* the value that starts at index i (whitespace already skipped)
ParseValue(s, i) ==
  IF i > Len(s) THEN FailAt(s, i)
  ELSE IF s[i] \in Digits THEN ParseNumber(s, i)
  ELSE IF s[i] = "n" THEN ParseNull(s, i)
  ELSE IF s[i] = "\"" THEN ParseString(s, i)
  ELSE IF s[i] = "["
       THEN LET j == SkipWs(s, i + 1)
            IN  IF j <= Len(s) /\ s[j] = "]" THEN ParseOk(JArray(<< >>), j + 1)
                ELSE ParseElements(s, j, << >>)
  ELSE IF s[i] = "{"
       THEN LET j == SkipWs(s, i + 1)
            IN  IF j <= Len(s) /\ s[j] = "}" THEN ParseOk(JObject(<< >>, << >>), j + 1)
                ELSE ParseMembers(s, j, << >>, << >>)
  ELSE FailAt(s, i)

\* JSON.parse(text): one value, surrounded by optional whitespace
JSONParse(s) ==
  LET v == ParseValue(s, SkipWs(s, 1))
      k == SkipWs(s, v.next)
  IN  IF ~v.ok THEN v
      ELSE IF k <= Len(s) THEN FailAt(s, k)
      ELSE v

(***************************************************************************)
(* JSON.stringify(value, null, indentation).  A numeric indentation below  *)
(* 1 gives the compact form; above 10 it is 10.                            *)
(***************************************************************************)
QuoteBare(s) == s

RECURSIVE Escape(_)
\* QuoteJSONString: a quote, a backslash and a line feed are written escaped
Escape(s) ==
  IF s = << >> THEN << >>
  ELSE (CASE Head(s) = "\"" -> << "\\", "\"" >>
          [] Head(s) = "\\" -> << "\\", "\\" >>
          [] Head(s) = "\n" -> << "\\", "n" >>
          [] OTHER -> << Head(s) >>) \o Escape(Tail(s))

\* a string in double quotes
Quote(s) == << "\"" >> \o Escape(s) \o << "\"" >>

RECURSIVE Join(_, _)
Join(parts, sep) ==
  IF parts = << >> THEN << >>
  ELSE IF Len(parts) = 1 THEN Head(parts)
  ELSE Head(parts) \o sep \o Join(Tail(parts), sep)

RECURSIVE Serialize(_, _, _)
\* the text of v with gap spaces per level, the current line indented by indent
Serialize(v, gap, indent) ==
  LET inner == indent + gap
      open == IF gap = 0 THEN << >> ELSE << "\n" >> \o Repeat(" ", inner)
      sep == << "," >> \o open
      close == IF gap = 0 THEN << >> ELSE << "\n" >> \o Repeat(" ", indent)
      colon == IF gap = 0 THEN << ":" >> ELSE << ":", " " >>
  IN  CASE v.t = "number" ->
             IF v.num.inf THEN << "n", "u", "l", "l" >> ELSE NumberToString(v.num)
        [] v.t = "null" -> << "n", "u", "l", "l" >>
        [] v.t = "string" -> Quote(v.str)
        [] v.t = "array" ->
             IF v.items = << >> THEN << "[", "]" >>
             ELSE << "[" >> \o open
                  \o Join([i \in DOMAIN v.items |-> Serialize(v.items[i], gap, inner)], sep)
                  \o close \o << "]" >>
        [] v.t = "object" ->
             IF v.items = << >> THEN << "{", "}" >>
             ELSE << "{" >> \o open
                  \o Join([i \in DOMAIN v.items |->
                             Quote(v.keys[i]) \o colon \o Serialize(v.items[i], gap, inner)], sep)
                  \o close \o << "}" >>

JSONStringify(v, indentation) ==
  Serialize(v, IF indentation < 1 THEN 0 ELSE IF indentation > 10 THEN 10 ELSE indentation, 0)

(***************************************************************************)
(* Messages.  A message is a sequence of tokens, each a word or a number,  *)
(* so that the searches the code runs on messages (the "position N"        *)
(* pattern, the case-insensitive phrase tests) are computed on it.         *)
(***************************************************************************)
W(word) == [w |-> word, isNum |-> FALSE, n |-> 0]
N(number) == [w |-> "", isNum |-> TRUE, n |-> number]

Words(ws) == [i \in DOMAIN ws |-> W(ws[i])]

\* String.prototype.toLowerCase on the words messages are made of
Lower(word) ==
  CASE word = "Unexpected" -> "unexpected"
    [] word = "JSON" -> "json"
    [] word = "JSON.parse:" -> "json.parse:"
    [] word = "No" -> "no"
    [] word = "Content" -> "content"
    [] word = "File" -> "file"
    [] word = "Processing" -> "processing"
    [] word = "Bytes" -> "bytes"
    [] word = "KB" -> "kb"
    [] word = "MB" -> "mb"
    [] word = "GB" -> "gb"
    [] word = "NaN" -> "nan"
    [] word = "UNEXPECTED" -> "unexpected"
    [] word = "Token" -> "token"
    [] word = "End" -> "end"
    [] word = "Bad" -> "bad"
    [] OTHER -> word

\* lowerMessage.includes(phrase), the phrase given as its lower-case words
Includes(msg, phrase) ==
  \E i \in 1..(Len(msg) - Len(phrase) + 1) :
    \A j \in DOMAIN phrase :
      ~msg[i + j - 1].isNum /\ Lower(msg[i + j - 1].w) = phrase[j]

\* message.match(/position (\d+)/i): the indexes of the numbers that follow
\* the word "position"
PositionMatches(msg) ==
  {i \in 2..Len(msg) : msg[i].isNum /\ msg[i].n >= 0
                       /\ ~msg[i - 1].isNum /\ Lower(msg[i - 1].w) = "position"}

(***************************************************************************)
(* The SyntaxError message of JSON.parse, which depends on the engine.     *)
(* "v8" words it as Node 18 does and embeds the offset of an unexpected    *)
(* token; "spidermonkey" reports line and column and never an offset.      *)
(***************************************************************************)
Engines == {"v8", "spidermonkey"}

RECURSIVE LineColumnOf(_, _, _, _)
\* line and column of the character at zero-based offset pos
LineColumnOf(s, pos, line, column) ==
  IF pos = 0 \/ s = << >> THEN << line, column >>
  ELSE IF Head(s) = "\n" THEN LineColumnOf(Tail(s), pos - 1, line + 1, 1)
  ELSE LineColumnOf(Tail(s), pos - 1, line, column + 1)

SyntaxErrorMessage(eng, s, failure) ==
  IF eng = "v8"
  THEN IF failure.kind = "end"
       THEN Words(<< "Unexpected", "end", "of", "JSON", "input" >>)
       ELSE Words(<< "Unexpected" >>)
            \o (IF s[failure.pos + 1] \in Digits THEN Words(<< "number" >>)
                ELSE IF s[failure.pos + 1] = "\"" THEN Words(<< "string" >>)
                ELSE Words(<< "token", s[failure.pos + 1] >>))
            \o Words(<< "in", "JSON", "at", "position" >>) \o << N(failure.pos) >>
  ELSE LET lc == LineColumnOf(s, failure.pos, 1, 1)
       IN  Words(<< "JSON.parse:", "unexpected",
                    IF failure.kind = "end" THEN "end" ELSE "character",
                    "at", "line" >>)
           \o << N(lc[1]) >> \o Words(<< "column" >>) \o << N(lc[2]) >>
           \o Words(<< "of", "the", "JSON", "data" >>)

(***************************************************************************)
(* ErrorInfo                                                               *)
(***************************************************************************)
Max(a, b) == IF a >= b THEN a ELSE b
Min(a, b) == IF a <= b THEN a ELSE b

ValidTypes == {"syntax", "validation", "size", "unknown"}

\* ErrorInfo._validateType
ValidateType(type) == IF type \in ValidTypes THEN type ELSE "unknown"

\* new ErrorInfo(message, type, position)
NewErrorInfo(message, type, position) ==
  [message |-> IF message = << >> THEN Words(<< "Unknown", "error" >>) ELSE message,
   type |-> ValidateType(type),
   position |-> Max(0, position),
   line |-> Null,
   column |-> Null,
   suggestion |-> Null]

RECURSIVE CalculateLineColumnFrom(_, _, _, _, _)
\* the loop of ErrorInfo._calculateLineColumn from index i (zero-based)
CalculateLineColumnFrom(content, position, i, line, column) ==
  IF i < Min(position, Len(content))
  THEN IF content[i + 1] = "\n"
       THEN CalculateLineColumnFrom(content, position, i + 1, line + 1, 1)
       ELSE CalculateLineColumnFrom(content, position, i + 1, line, column + 1)
  ELSE [line |-> line, column |-> column]

CalculateLineColumnNoReset(content, position) ==
  [line |-> CalculateLineColumnFrom(content, position, 0, 1, 1).line,
   column |-> 1 + Min(position, Len(content))]

\* ErrorInfo._calculateLineColumn
CalculateLineColumn(content, position) ==
  CalculateLineColumnFrom(content, position, 0, 1, 1)

GenerateSuggestionEndFirst(message, type) ==
  IF type = "syntax"
  THEN IF Includes(message, << "unexpected", "end" >>)
       THEN Some("Check for missing closing brackets or quotes")
       ELSE IF Includes(message, << "unexpected", "token" >>)
       THEN Some("Check for missing commas, brackets, or quotes")
       ELSE IF Includes(message, << "unexpected", "string" >>)
       THEN Some("Check for unescaped quotes or special characters")
       ELSE Some("Check JSON syntax for common errors like missing commas or brackets")
  ELSE IF type = "validation"
  THEN Some("Ensure the JSON structure is valid and complete")
  ELSE IF type = "size"
  THEN Some("Try reducing the file size or breaking it into smaller parts")
  ELSE Null

\* ErrorInfo._generateSuggestion
GenerateSuggestion(message, type) ==
  IF type = "syntax"
  THEN IF Includes(message, << "unexpected", "token" >>)
       THEN Some("Check for missing commas, brackets, or quotes")
       ELSE IF Includes(message, << "unexpected", "end" >>)
       THEN Some("Check for missing closing brackets or quotes")
       ELSE IF Includes(message, << "unexpected", "string" >>)
       THEN Some("Check for unescaped quotes or special characters")
       ELSE Some("Check JSON syntax for common errors like missing commas or brackets")
  ELSE IF type = "validation"
  THEN Some("Ensure the JSON structure is valid and complete")
  ELSE IF type = "size"
  THEN Some("Try reducing the file size or breaking it into smaller parts")
  ELSE Null

RECURSIVE Power(_, _)
Power(b, e) == IF e = 0 THEN 1 ELSE b * Power(b, e - 1)

\* _formatBytes of JSONValidator and of ErrorInfo (the same code): the
\* number is kept in hundredths, rounded as toFixed(2) rounds it
FormatBytes(bytes) ==
  IF bytes = 0 THEN << N(0), W("Bytes") >>
  ELSE IF bytes < 0 THEN Words(<< "NaN", "undefined" >>)
  ELSE LET i == CHOOSE e \in 0..6 : Power(1024, e) <= bytes /\ bytes < Power(1024, e + 1)
           unit == IF i > 3 THEN "undefined"
                   ELSE << "Bytes", "KB", "MB", "GB" >>[i + 1]
       IN  << N((2 * bytes * 100 + Power(1024, i)) \div (2 * Power(1024, i))), W(unit) >>

FromJSONErrorMistyped(message, content) ==
  [NewErrorInfo(message, "Syntax", 0)
     EXCEPT !.suggestion = GenerateSuggestion(message, "syntax")]

FromJSONErrorAtZero(message, content) ==
  LET e0 == NewErrorInfo(message, "syntax", 0)
      matches == PositionMatches(message)
      e1 == IF matches # {}
            THEN [e0 EXCEPT !.position =
                    message[CHOOSE i \in matches : \A j \in matches : i <= j].n]
            ELSE e0
      lc == CalculateLineColumn(content, e1.position)
      e2 == IF content # << >>
            THEN [e1 EXCEPT !.line = Some(lc.line), !.column = Some(lc.column)]
            ELSE e1
  IN  [e2 EXCEPT !.suggestion = GenerateSuggestion(message, e2.type)]

\* ErrorInfo.fromJSONError(error, content), error.message being message
FromJSONError(message, content) ==
  LET e0 == NewErrorInfo(message, "syntax", 0)
      matches == PositionMatches(message)
      e1 == IF matches # {}
            THEN [e0 EXCEPT !.position =
                    message[CHOOSE i \in matches : \A j \in matches : i <= j].n]
            ELSE e0
      lc == CalculateLineColumn(content, e1.position)
      e2 == IF content # << >> /\ e1.position > 0
            THEN [e1 EXCEPT !.line = Some(lc.line), !.column = Some(lc.column)]
            ELSE e1
  IN  [e2 EXCEPT !.suggestion = GenerateSuggestion(message, e2.type)]

\* ErrorInfo.fromValidationError(message, position)
FromValidationError(message, position) ==
  [NewErrorInfo(message, "validation", position)
     EXCEPT !.suggestion = GenerateSuggestion(message, "validation")]

\* ErrorInfo.fromSizeError(actualSize, maxSize)
FromSizeError(actualSize, maxSize) ==
  [NewErrorInfo(Words(<< "File", "size" >>) \o FormatBytes(actualSize)
                  \o Words(<< "exceeds", "limit" >>) \o FormatBytes(maxSize),
                "size", 0)
     EXCEPT !.suggestion = Some("Try reducing the file size or breaking it into smaller parts")]

(***************************************************************************)
(* Arguments of the public calls.                                          *)
(*   content: any JavaScript value; k is its kind ("zero" the number 0,    *)
(*            "number" the number 42, "object" the object {}), s its text  *)
(*            when it is a string.                                         *)
(*   options: an object whose fields are present (Some) or absent (Null);  *)
(*            omitted options are the object with every field absent.      *)
(***************************************************************************)
Str(s) == [k |-> "string", s |-> s]
NonString(kind) == [k |-> kind, s |-> << >>]

IsString(content) == content.k = "string"
\* !content
Falsy(content) ==
  \/ content.k \in {"undefined", "null", "zero"}
  \/ content.k = "string" /\ content.s = << >>

\* new Blob([content]).size: a value that is no string is converted to one
BlobSize(content) ==
  CASE content.k = "string" -> ByteLength(content.s)
    [] content.k = "undefined" -> 9
    [] content.k = "null" -> 4
    [] content.k = "zero" -> 1
    [] content.k = "number" -> 2
    [] content.k = "object" -> 15

\* a || b for an option that is absent or a number
OrElse(option, fallback) ==
  IF option = Null \/ option[1] = 0 THEN fallback ELSE option[1]

\* a parameter with a default value: the default stands in for undefined
OrAbsent(argument, default) == IF argument = Null THEN default ELSE argument[1]

Options(maxSize, indentation) ==
  [isNull |-> FALSE, maxSize |-> maxSize, indentation |-> indentation]
\* null passed where an options object is expected
NullOptions == [isNull |-> TRUE, maxSize |-> Null, indentation |-> Null]

(***************************************************************************)
(* JSONValidator                                                           *)
(***************************************************************************)
DefaultMaxSize == 1048576
\* JSONFormatter: the initial defaultIndentation, and the largest maxIndentation
DefaultIndentation == 2
IndentationCeiling == 8

ParseCaughtErrorOnly(content, timed, message) ==
  [timed EXCEPT !.error = Some(message)]

\* validateJSON, lines 61-67: the catch block, message being error.message
ParseCaught(content, timed, message) ==
  [timed EXCEPT !.error = Some(message),
                !.errorInfo = Some(FromJSONError(message, content.s))]

\* validateJSON, lines 50-68, given what JSON.parse did
ParseTried(eng, content, timed, parsed) ==
  IF parsed.ok
  THEN [timed EXCEPT !.isValid = TRUE, !.parsedData = Some(parsed.val)]
  ELSE ParseCaught(content, timed, SyntaxErrorMessage(eng, content.s, parsed))

\* validateJSON, lines 50-68: the parse attempt, which took elapsed ticks
ParseStep(eng, content, sized, elapsed) ==
  ParseTried(eng, content,
             [sized EXCEPT !.parseTime = elapsed,
                           !.checks = << "content", "size", "trim", "parse" >>],
             JSONParse(content.s))

\* validateJSON, lines 43-48: empty or only whitespace
TrimStep(eng, content, sized, elapsed) ==
  LET trimmed == [sized EXCEPT !.checks = << "content", "size", "trim" >>]
  IN  IF Trim(content.s) = << >>
      THEN [trimmed EXCEPT
              !.error = Some(Words(<< "Content", "is", "empty" >>)),
              !.errorInfo = Some(FromValidationError(Words(<< "Content", "is", "empty" >>), 0))]
      ELSE ParseStep(eng, content, trimmed, elapsed)

SizeStepTrimFirst(thisMaxSize, eng, content, options, result, elapsed) ==
  LET size == ByteLength(content.s)
      limit == OrElse(options.maxSize, thisMaxSize)
      sized == [result EXCEPT !.size = size, !.sizeValid = (size <= limit),
                              !.checks = << "content", "size" >>]
  IN  IF Trim(content.s) = << >> \/ sized.sizeValid
      THEN TrimStep(eng, content, sized, elapsed)
      ELSE [sized EXCEPT !.error = Some(Words(<< "Content", "size" >>)),
                         !.errorInfo = Some(FromSizeError(size, limit))]

SizeStepLateSize(thisMaxSize, eng, content, options, result, elapsed) ==
  LET size == ByteLength(content.s)
      limit == OrElse(options.maxSize, thisMaxSize)
      sized == [result EXCEPT !.sizeValid = (size <= limit),
                              !.checks = << "content", "size" >>]
  IN  IF ~sized.sizeValid
      THEN [sized EXCEPT !.error = Some(Words(<< "Content", "size" >>)),
                         !.errorInfo = Some(FromSizeError(size, limit))]
      ELSE TrimStep(eng, content, [sized EXCEPT !.size = size], elapsed)

SizeStepStrict(thisMaxSize, eng, content, options, result, elapsed) ==
  LET size == ByteLength(content.s)
      limit == OrElse(options.maxSize, thisMaxSize)
      sized == [result EXCEPT !.size = size, !.sizeValid = (size < limit),
                              !.checks = << "content", "size" >>]
  IN  IF ~sized.sizeValid
      THEN [sized EXCEPT !.error = Some(Words(<< "Content", "size" >>)),
                         !.errorInfo = Some(FromSizeError(size, limit))]
      ELSE TrimStep(eng, content, sized, elapsed)

\* validateJSON, lines 32-41: the size of the content against the limit
SizeStep(thisMaxSize, eng, content, options, result, elapsed) ==
  LET size == ByteLength(content.s)
      limit == OrElse(options.maxSize, thisMaxSize)
      sized == [result EXCEPT !.size = size, !.sizeValid = (size <= limit),
                              !.checks = << "content", "size" >>]
  IN  IF ~sized.sizeValid
      THEN [sized EXCEPT
              !.error = Some(Words(<< "Content", "size" >>) \o FormatBytes(size)
                             \o Words(<< "exceeds", "limit" >>) \o FormatBytes(limit)),
              !.errorInfo = Some(FromSizeError(size, limit))]
      ELSE TrimStep(eng, content, sized, elapsed)

\* JSONValidator.validateJSON(content, options) of a validator whose maxSize
\* is thisMaxSize, the parse attempt taking elapsed clock ticks.  The field
\* checks lists the checks that were run, in order.
ValidateJSON(thisMaxSize, eng, content, options, elapsed) ==
  LET result == [isValid |-> FALSE, error |-> Null, errorInfo |-> Null,
                 size |-> 0, sizeValid |-> TRUE, parseTime |-> 0,
                 parsedData |-> Null, checks |-> << "content" >>]
  IN  IF Falsy(content) \/ ~IsString(content)
      THEN [result EXCEPT
              !.error = Some(Words(<< "No", "content", "provided" >>)),
              !.errorInfo = Some(FromValidationError(Words(<< "No", "content", "provided" >>), 0))]
      ELSE SizeStep(thisMaxSize, eng, content, options, result, elapsed)

\* JSONValidator.setMaxSize
SetMaxSizeValue(requested) == Max(0, requested)

(***************************************************************************)
(* JSONValidator: the narrow entry points and the statistics               *)
(***************************************************************************)
\* JSONValidator.validateSize(content, maxSize = this.maxSize): the default
\* stands in only for an absent argument
ValidateSize(thisMaxSize, content, maxSizeArg) ==
  LET size == BlobSize(content)
      limit == IF maxSizeArg = Null THEN thisMaxSize ELSE maxSizeArg[1]
  IN  [isValid |-> size <= limit,
       size |-> size,
       maxSize |-> limit,
       error |-> IF size <= limit THEN Null
                 ELSE Some(Words(<< "Content", "size" >>) \o FormatBytes(size)
                           \o Words(<< "exceeds", "limit" >>) \o FormatBytes(limit))]

\* validateSyntax, lines 118-124: the catch block
SyntaxCaught(content, message) ==
  [isValid |-> FALSE,
   error |-> Some(message),
   errorInfo |-> Some(FromJSONError(message, content.s))]

\* validateSyntax, lines 110-124, given what JSON.parse did
SyntaxTried(eng, content, parsed) ==
  IF parsed.ok
  THEN [isValid |-> TRUE, error |-> Null, errorInfo |-> Null]
  ELSE SyntaxCaught(content, SyntaxErrorMessage(eng, content.s, parsed))

\* JSONValidator.validateSyntax(content)
ValidateSyntax(eng, content) ==
  IF Falsy(content) \/ ~IsString(content)
  THEN [isValid |-> FALSE,
        error |-> Some(Words(<< "No", "content", "provided" >>)),
        errorInfo |-> Some(FromValidationError(Words(<< "No", "content", "provided" >>), 0))]
  ELSE IF Trim(content.s) = << >>
  THEN [isValid |-> FALSE,
        error |-> Some(Words(<< "Content", "is", "empty" >>)),
        errorInfo |-> Some(FromValidationError(Words(<< "Content", "is", "empty" >>), 0))]
  ELSE SyntaxTried(eng, content, JSONParse(content.s))

\* an operation that ran to its return statement, or threw error
Normal(value) == [threw |-> FALSE, value |-> Some(value), error |-> Null]
Thrown(error) == [threw |-> TRUE, value |-> Null, error |-> Some(error)]

\* content.split('\n').length
LineCount(s) == 1 + Cardinality({i \in DOMAIN s : s[i] = "\n"})

\* content.split(/\s+/).filter(word => word.length > 0).length
WordCount(s) ==
  Cardinality({i \in DOMAIN s :
                 s[i] \notin Whitespace /\ (i = 1 \/ s[i - 1] \in Whitespace)})

\* the TypeError of calling split on a value that is no string
SplitTypeError == Words(<< "content.split", "is", "not", "a", "function" >>)

\* getValidationStats, lines 135-145: the object it returns
ValidationStats(content, validation) ==
  [isValid |-> validation.isValid,
   size |-> validation.size,
   sizeValid |-> validation.sizeValid,
   parseTime |-> validation.parseTime,
   hasError |-> validation.error # Null,
   errorType |-> IF validation.errorInfo # Null
                 THEN Some(validation.errorInfo[1].type) ELSE Null,
   lineCount |-> LineCount(content.s),
   characterCount |-> Len(content.s),
   wordCount |-> WordCount(content.s)]

\* JSONValidator.getValidationStats(content): validateJSON returns, then
\* split throws for a content that is no string
GetValidationStats(thisMaxSize, eng, content, elapsed) ==
  IF ~IsString(content) THEN Thrown(SplitTypeError)
  ELSE Normal(ValidationStats(content,
                ValidateJSON(thisMaxSize, eng, content, Options(Null, Null), elapsed)))

(***************************************************************************)
(* JSONFormatter                                                           *)
(*                                                                         *)
(* A requested indentation is a JavaScript value: an integer, NaN (what    *)
(* parseInt returns for an empty selection) or a string.                   *)
(***************************************************************************)
IndNumber(n) == [kind |-> "number", n |-> n, s |-> << >>]
IndNaN == [kind |-> "nan", n |-> 0, s |-> << >>]
IndString(s) == [kind |-> "string", n |-> 0, s |-> s]

\* the truth value of a requested indentation
IndTruthy(v) ==
  CASE v.kind = "number" -> v.n # 0
    [] v.kind = "nan" -> FALSE
    [] v.kind = "string" -> v.s # << >>

\* options.indentation || fallback, fallback being a number
IndentationOr(option, fallback) ==
  IF option # Null /\ IndTruthy(option[1]) THEN option[1] ELSE IndNumber(fallback)

\* parseInt(v, 10): Null is NaN.  A string is read as optional whitespace,
\* an optional minus sign and the digits that follow.
ParseInt(v) ==
  CASE v.kind = "number" -> Some(v.n)
    [] v.kind = "nan" -> Null
    [] v.kind = "string" ->
         LET start == SkipWs(v.s, 1)
             negative == start <= Len(v.s) /\ v.s[start] = "-"
             first == IF negative THEN start + 1 ELSE start
             last == DigitsEnd(v.s, first)
             magnitude == DecimalValue(SubSeq(v.s, first, last - 1))
         IN  IF last = first THEN Null
             ELSE Some(IF negative THEN 0 - magnitude ELSE magnitude)

ValidateIndentationClamped(thisDefault, thisMax, indentation) ==
  LET num == ParseInt(indentation)
  IN  IF num = Null THEN thisDefault ELSE Max(1, Min(thisMax, num[1]))

\* JSONFormatter._validateIndentation
ValidateIndentation(thisDefault, thisMax, indentation) ==
  LET num == ParseInt(indentation)
  IN  IF num # Null /\ num[1] >= 1 /\ num[1] <= thisMax THEN num[1] ELSE thisDefault

\* JSONFormatter.setDefaultIndentation
SetDefaultIndentationValue(thisDefault, thisMax, indentation) ==
  ValidateIndentation(thisDefault, thisMax, indentation)

\* JSONFormatter.setMaxIndentation
SetMaxIndentationValue(requested) == Max(1, Min(IndentationCeiling, requested))

\* `JSON parsing failed: ${error.message}`
ParsingFailed(message) == Words(<< "JSON", "parsing", "failed:" >>) \o message

\* formatJSON, lines 418-434, given what JSON.parse did
FormatTried(eng, content, indentation, elapsed, result, parsed) ==
  IF parsed.ok
  THEN [result EXCEPT !.formatted = JSONStringify(parsed.val, indentation),
                      !.success = TRUE,
                      !.formatTime = elapsed,
                      !.indentation = Some(indentation)]
  ELSE [result EXCEPT !.formatTime = elapsed,
                      !.error = Some(ParsingFailed(SyntaxErrorMessage(eng, content.s, parsed)))]

\* JSONFormatter.formatJSON(content, options), the timed section taking
\* elapsed ticks.  The field indentation is the width handed to
\* JSON.stringify, Null when the serializer was not called.
FormatJSON(thisDefault, thisMax, eng, content, options, elapsed) ==
  LET result == [success |-> FALSE, formatted |-> << >>, error |-> Null,
                 formatTime |-> 0, indentation |-> Null]
  IN  IF Falsy(content) \/ ~IsString(content)
      THEN [result EXCEPT !.error = Some(Words(<< "No", "content", "provided" >>))]
      ELSE IF Trim(content.s) = << >>
      THEN [result EXCEPT !.error = Some(Words(<< "Content", "is", "empty" >>))]
      ELSE FormatTried(eng, content,
                       ValidateIndentation(thisDefault, thisMax,
                                           IndentationOr(options.indentation, thisDefault)),
                       elapsed, result, JSONParse(content.s))

\* minifyJSON, lines 463-477, given what JSON.parse did
MinifyTried(eng, content, elapsed, result, parsed) ==
  IF parsed.ok
  THEN [result EXCEPT !.minified = JSONStringify(parsed.val, 0),
                      !.success = TRUE,
                      !.minifyTime = elapsed]
  ELSE [result EXCEPT !.minifyTime = elapsed,
                      !.error = Some(ParsingFailed(SyntaxErrorMessage(eng, content.s, parsed)))]

\* JSONFormatter.minifyJSON(content)
MinifyJSON(eng, content, elapsed) ==
  LET result == [success |-> FALSE, minified |-> << >>, error |-> Null, minifyTime |-> 0]
  IN  IF Falsy(content) \/ ~IsString(content)
      THEN [result EXCEPT !.error = Some(Words(<< "No", "content", "provided" >>))]
      ELSE IF Trim(content.s) = << >>
      THEN [result EXCEPT !.error = Some(Words(<< "Content", "is", "empty" >>))]
      ELSE MinifyTried(eng, content, elapsed, result, JSONParse(content.s))

(***************************************************************************)
(* JSONFormatter: the statistics.  A percentage is kept as the fraction    *)
(* num / den.                                                              *)
(***************************************************************************)
Fraction(num, den) == [num |-> num, den |-> den]

\* getFormattingStats, lines 539-549: the object it returns
FormattingStats(content, formatResult, minifyResult) ==
  [originalSize |-> BlobSize(content),
   formattedSize |-> IF formatResult.success THEN ByteLength(formatResult.formatted) ELSE 0,
   minifiedSize |-> IF minifyResult.success THEN ByteLength(minifyResult.minified) ELSE 0,
   formatTime |-> formatResult.formatTime,
   minifyTime |-> minifyResult.minifyTime,
   compressionRatio |->
     IF minifyResult.success
     THEN Fraction((Len(content.s) - Len(minifyResult.minified)) * 100, Len(content.s))
     ELSE Fraction(0, 1),
   canFormat |-> formatResult.success,
   canMinify |-> minifyResult.success]

\* JSONFormatter.getFormattingStats(content, options)
GetFormattingStats(thisDefault, thisMax, eng, content, options, formatTicks, minifyTicks) ==
  FormattingStats(content,
                  FormatJSON(thisDefault, thisMax, eng, content, options, formatTicks),
                  MinifyJSON(eng, content, minifyTicks))

(***************************************************************************)
(* JSONProcessor                                                           *)
(***************************************************************************)
\* JSONProcessor._calculateStats
CalculateStats(original, formatted, minified) ==
  LET originalSize == ByteLength(original)
      formattedSize == ByteLength(formatted)
      minifiedSize == ByteLength(minified)
  IN  [originalSize |-> originalSize,
       formattedSize |-> formattedSize,
       minifiedSize |-> minifiedSize,
       compressionRatio |-> Fraction((originalSize - minifiedSize) * 100, originalSize),
       expansionRatio |-> Fraction((formattedSize - originalSize) * 100, originalSize),
       lineCount |-> LineCount(formatted),
       characterCount |-> Len(original)]

\* the ticks the sections of one processJSON call take: the three timed
\* attempts, and everything else between its first and last clock reading
\* (either every section takes the same number of ticks or only one takes any)
Timings ==
  {t \in [validate : Ticks, format : Ticks, minify : Ticks, other : Ticks] :
     \/ t.validate = t.format /\ t.format = t.minify /\ t.minify = t.other
     \/ Cardinality({f \in {"validate", "format", "minify", "other"} : t[f] # 0}) = 1}

\* the TypeError of reading a property of null
NullTypeError ==
  Words(<< "Cannot", "read", "properties", "of", "null" >>)

\* processJSON, lines 227-255: the result given what formatJSON returned and
\* what minifyJSON returns
ProcessFormatted(content, validated, formatResult, minifyResult) ==
  LET formatted == [validated EXCEPT
                      !.calls = << "validateJSON", "formatJSON" >>,
                      !.formatting = Some(formatResult),
                      !.processingTime = @ + formatResult.formatTime]
      minified == [formatted EXCEPT
                     !.calls = << "validateJSON", "formatJSON", "minifyJSON" >>,
                     !.minifying = Some(minifyResult),
                     !.processingTime = @ + minifyResult.minifyTime]
  IN  IF ~formatResult.success
      THEN [formatted EXCEPT !.error = formatResult.error]
      ELSE IF ~minifyResult.success
      THEN [minified EXCEPT !.error = minifyResult.error]
      ELSE [minified EXCEPT
              !.success = TRUE,
              !.formatted = formatResult.formatted,
              !.minified = minifyResult.minified,
              !.stats = Some(CalculateStats(content.s, formatResult.formatted,
                                            minifyResult.minified))]

\* processJSON, lines 223-235: formatting and minifying a validated content
ProcessValidated(thisDefault, thisMax, eng, content, options, times, validated) ==
  ProcessFormatted(content, validated,
                   FormatJSON(thisDefault, thisMax, eng, content,
                              Options(Null, Some(IndentationOr(options.indentation, 2))),
                              times.format),
                   MinifyJSON(eng, content, times.minify))

ProcessValidationUntimed(validationResult, result) ==
  [result EXCEPT
     !.isValid = validationResult.isValid,
     !.error = validationResult.error,
     !.errorInfo = validationResult.errorInfo,
     !.calls = << "validateJSON" >>,
     !.validation = Some(validationResult)]

\* processJSON, lines 208-214: the result once validateJSON has returned
ProcessValidation(validationResult, result) ==
  [result EXCEPT
     !.isValid = validationResult.isValid,
     !.error = validationResult.error,
     !.errorInfo = validationResult.errorInfo,
     !.processingTime = @ + validationResult.parseTime,
     !.calls = << "validateJSON" >>,
     !.validation = Some(validationResult)]

\* processJSON, lines 193-202: the result object before any call
NewProcessingResult(times) ==
  [success |-> FALSE, isValid |-> FALSE, formatted |-> << >>,
   minified |-> << >>, error |-> Null, errorInfo |-> Null,
   processingTime |-> times.other, stats |-> Null,
   calls |-> << >>, validation |-> Null, formatting |-> Null, minifying |-> Null]

ProcessJSONNoEarlyReturn(thisMaxSize, thisDefault, thisMax, eng, content, options, times) ==
  IF options.isNull
  THEN [NewProcessingResult(times) EXCEPT
          !.error = Some(Words(<< "Processing", "failed:" >>) \o NullTypeError)]
  ELSE ProcessValidated(thisDefault, thisMax, eng, content, options, times,
         ProcessValidation(ValidateJSON(thisMaxSize, eng, content,
                                        Options(options.maxSize, Null), times.validate),
                           NewProcessingResult(times)))

\* processJSON, lines 216-220: the early return on a rejected content
ProcessIfValid(thisDefault, thisMax, eng, content, options, times, validated) ==
  IF ~validated.isValid THEN validated
  ELSE ProcessValidated(thisDefault, thisMax, eng, content, options, times, validated)

\* JSONProcessor.processJSON(content, options).  stats is Null for the
\* object {} without fields.  Four fields record what the call did: calls,
\* the methods it invoked, in order, and validation, formatting and
\* minifying, what validateJSON, formatJSON and minifyJSON returned to it.
\* processingTime, the last clock reading minus the first, is the time of
\* the three timed sections that ran plus times.other, the time the call
\* spent outside them.
ProcessJSON(thisMaxSize, thisDefault, thisMax, eng, content, options, times) ==
  IF options.isNull
  THEN [NewProcessingResult(times) EXCEPT
          !.error = Some(Words(<< "Processing", "failed:" >>) \o NullTypeError)]
  ELSE ProcessIfValid(thisDefault, thisMax, eng, content, options, times,
         ProcessValidation(ValidateJSON(thisMaxSize, eng, content,
                                        Options(options.maxSize, Null), times.validate),
                           NewProcessingResult(times)))

WithFormatAlwaysFormatted(result, format) ==
  [result |-> result,
   output |-> IF result.success THEN Some(result.formatted) ELSE Null,
   selectedFormat |-> IF result.success THEN Some(format) ELSE Null]

\* processWithFormat, lines 272-279: the fields added to result
WithFormat(result, format) ==
  [result |-> result,
   output |-> IF result.success
              THEN Some(IF format = "minified" THEN result.minified ELSE result.formatted)
              ELSE Null,
   selectedFormat |-> IF result.success THEN Some(format) ELSE Null]

\* JSONProcessor.processWithFormat(content, format, options): the result of
\* processJSON with the fields output and selectedFormat, Null when unset
ProcessWithFormat(thisMaxSize, thisDefault, thisMax, eng, content, format, options, times) ==
  WithFormat(ProcessJSON(thisMaxSize, thisDefault, thisMax, eng, content, options, times),
             format)

\* getProcessingStats, lines 321-325: the object it returns, unless
\* getValidationStats threw; of two spread objects the later one wins
ProcessingStats(validationStats, formattingStats) ==
  IF validationStats.threw THEN validationStats
  ELSE Normal([processingEfficiency |->
                 validationStats.value[1].parseTime + formattingStats.formatTime
                   + formattingStats.minifyTime]
              @@ formattingStats @@ validationStats.value[1])

\* JSONProcessor.getProcessingStats(content, options)
GetProcessingStats(thisMaxSize, thisDefault, thisMax, eng, content, options, times) ==
  ProcessingStats(GetValidationStats(thisMaxSize, eng, content, times.validate),
                  GetFormattingStats(thisDefault, thisMax, eng, content, options,
                                     times.format, times.minify))

(***************************************************************************)
(* Inputs                                                                  *)
(***************************************************************************)
\* the texts of the specification's scenarios and a few longer documents
SampleTexts ==
  { << "{", "\"", "a", "\"", ":", "1", "}" >>,
    << "{", "\"", "a", "\"", ":", " ", "1", ",", "}" >>,
    << "{", "\"", "a", "\"", ":", "{", "\"", "b", "\"", ":", "[", "1", ",", "2", ",", "3", "]", "}", "}" >>,
    << "[", "1", ",", " ", "[", "2", "]", "]" >>,
    << "[", "1", ",", "\n", "]" >>,
    << "{", "\"", "b", "\"", ":", "1", ",", "\"", "1", "\"", ":", "2", ",", "\"", "b", "\"", ":", "3", "}" >>,
    << "{", "\"", "a", "\"", ":", "\"", EAcute, "\"", "}" >>,
    << "\n", " ", "[", "]", "\n", "x" >>,
    << "1", "e", "9", "9", "9" >>,
    << "[", "\"", "a", "\\", "\"", "\\", "n", "\"", "]" >>,
    << "[", "1", ".", "5", "0", ",", "2", "e", "1", ",", "n", "u", "l", "l", "]" >> }

Texts == StringsUpTo(TextAlphabet, MaxLen) \cup SampleTexts

Contents ==
  {Str(s) : s \in Texts}
    \cup {NonString(kind) : kind \in {"undefined", "null", "zero", "number", "object"}}

\* the per-call maxSize option: absent, or a number
MaxSizeOptions == {Null} \cup {Some(n) : n \in -1..(MaxLen + 1)}

\* scenario 4: 2,000 characters 'x' under a limit of 1,000 bytes
ScenarioLength == 2000
ScenarioLimit == 1000
ScenarioText == Repeat("x", ScenarioLength)

ValidatorInputs ==
  {<< c, Options(m, Null) >> : c \in Contents, m \in MaxSizeOptions}
    \cup {<< Str(ScenarioText), Options(Some(ScenarioLimit), Null) >>}

\* the arguments of setMaxSize
MaxSizeRequests == {-1, 2, DefaultMaxSize}

(***************************************************************************)
(* Inputs of the formatter                                                 *)
(***************************************************************************)
FormatAlphabet == {"[", "]", "1", " "}

FormatTexts == StringsUpTo(FormatAlphabet, MaxLen) \cup SampleTexts

FormatContents ==
  {Str(s) : s \in FormatTexts}
    \cup {NonString(kind) : kind \in {"undefined", "null", "zero", "number", "object"}}

\* requested indentations: integers around the range 1..8, NaN and strings
IndentationRequests ==
  {IndNumber(n) : n \in {-1, 0, 1, 2, 3, 4, IndentationCeiling, IndentationCeiling + 1, 11}}
    \cup {IndNaN, IndString(<< >>), IndString(<< "a", "b" >>), IndString(<< "3", "x" >>)}

IndentationOptions == {Null} \cup {Some(v) : v \in IndentationRequests}

MaxIndentationRequests == {0, 1, 4, IndentationCeiling + 1}

(***************************************************************************)
(* Inputs of the processor and of the narrow entry points                  *)
(***************************************************************************)
\* the contents given to the calls that wrap another call
WrapperContents ==
  {Str(s) : s \in StringsUpTo(FormatAlphabet, 1) \cup SampleTexts}
    \cup {NonString(kind) : kind \in {"undefined", "null", "zero", "number", "object"}}

ProcessorOptions ==
  {Options(m, i) : m \in {Null, Some(2)},
                   i \in {Null, Some(IndNumber(0)), Some(IndNumber(4))}}

\* the arguments of setOptions
SetOptionsRequests ==
  {Options(Some(2), Null), Options(Null, Some(IndNumber(4))), Options(Some(-1), Some(IndNaN))}

(***************************************************************************)
(* Inputs of the ErrorInfo factories                                       *)
(***************************************************************************)
\* the contents handed to fromJSONError, the empty one among them
ErrorTexts ==
  StringsUpTo({"[", "\n"}, 2)
    \cup {<< "[", "1", ",", "\n", "]" >>, << "\n", "\n", "[", "1", "2" >>,
          << "\n", "[", "\n" >>}

\* messages no engine of the model words: other phrases, other cases,
\* several phrases at once, several positions
OtherMessages ==
  {Words(<< "Unexpected", "string", "in", "JSON", "at", "position" >>) \o << N(2) >>,
   Words(<< "UNEXPECTED", "Token", "]" >>),
   Words(<< "unexpected", "End", "after", "unexpected", "token" >>),
   Words(<< "Unexpected", "string", "and", "unexpected", "end" >>),
   Words(<< "token", "unexpected" >>),
   Words(<< "Bad", "input", "at", "position" >>) \o << N(0) >>,
   Words(<< "position" >>) \o << N(4) >> \o Words(<< "not", "position" >>) \o << N(1) >>,
   Words(<< "Content", "is", "empty" >>)}

\* error.message of the errors handed to fromJSONError
ErrorMessages ==
  {SyntaxErrorMessage(eng, s, JSONParse(s)) :
     eng \in Engines, s \in {t \in ErrorTexts : ~JSONParse(t).ok}}
    \cup OtherMessages

\* the position handed to fromValidationError: absent, or a number
PositionArguments == {Null} \cup {Some(n) : n \in {-1, 0, 3}}

\* the sizes handed to fromSizeError
SizeArguments == {-1, 0, 1, 1000, 1024, 1536, DefaultMaxSize}

(***************************************************************************)
(* JSONDocument (src/js/modules/JSONDocument.js).  A document is the       *)
(* record of its fields; rawContent, formattedContent and minifiedContent  *)
(* are JavaScript values like the content of the public calls,            *)
(* errorMessage and errorPosition are null (Null) or a value, lastModified *)
(* is the reading of the clock the Date was made from.                     *)
(***************************************************************************)
EmptyString == Str(<< >>)

\* content || ''
OrEmpty(content) == IF Falsy(content) THEN EmptyString ELSE content

UpdateSizeStale(doc) == doc

\* _updateSize()
UpdateSize(doc) == [doc EXCEPT !.size = BlobSize(doc.rawContent)]

\* new JSONDocument(rawContent): the default '' stands in for undefined only
NewJSONDocument(rawContent, now) ==
  UpdateSize([rawContent |-> IF rawContent.k = "undefined" THEN EmptyString ELSE rawContent,
              formattedContent |-> EmptyString,
              minifiedContent |-> EmptyString,
              isValid |-> FALSE,
              errorMessage |-> Null,
              errorPosition |-> Null,
              size |-> 0,
              lastModified |-> now])

SetRawContentKeepsOutputs(doc, content, now) ==
  UpdateSize([doc EXCEPT
                !.rawContent = OrEmpty(content),
                !.isValid = FALSE,
                !.errorMessage = Null,
                !.errorPosition = Null,
                !.lastModified = now])

\* document.setRawContent(content)
SetRawContentOf(doc, content, now) ==
  UpdateSize([doc EXCEPT
                !.rawContent = OrEmpty(content),
                !.formattedContent = EmptyString,
                !.minifiedContent = EmptyString,
                !.isValid = FALSE,
                !.errorMessage = Null,
                !.errorPosition = Null,
                !.lastModified = now])

\* document.setFormattedContent(content)
SetFormattedContentOf(doc, content) == [doc EXCEPT !.formattedContent = OrEmpty(content)]

\* document.setMinifiedContent(content)
SetMinifiedContentOf(doc, content) == [doc EXCEPT !.minifiedContent = OrEmpty(content)]

\* document.setValidationState(isValid, errorMessage, errorPosition): an
\* omitted errorMessage or errorPosition is null
SetValidationStateOf(doc, isValid, errorMessage, errorPosition) ==
  [doc EXCEPT
     !.isValid = isValid,
     !.errorMessage = errorMessage,
     !.errorPosition = errorPosition]

\* a || b for two JavaScript values
Or(a, b) == IF Falsy(a) THEN b ELSE a

GetContentFormattedOnly(doc, format) == Or(doc.formattedContent, doc.rawContent)

\* document.getContent(format): an omitted format is 'formatted'
GetContent(doc, format) ==
  IF OrAbsent(format, "formatted") = "minified"
  THEN Or(doc.minifiedContent, doc.rawContent)
  ELSE Or(doc.formattedContent, doc.rawContent)

\* the default of validateSize's parameter
DocumentMaxSize == 1048576

\* document.validateSize(maxSize)
DocumentValidateSize(doc, maxSizeArg) == doc.size <= OrAbsent(maxSizeArg, DocumentMaxSize)

\* document.clone(): a new document of the same rawContent, the other fields
\* copied
Clone(doc, now) ==
  [NewJSONDocument(doc.rawContent, now) EXCEPT
     !.formattedContent = doc.formattedContent,
     !.minifiedContent = doc.minifiedContent,
     !.isValid = doc.isValid,
     !.errorMessage = doc.errorMessage,
     !.errorPosition = doc.errorPosition,
     !.lastModified = doc.lastModified]

\* what the document operations are called with
DocumentContents ==
  {Str(s) : s \in {<< >>, << "[" >>, << "[", "]" >>, << EAcute >>}}
    \cup {NonString(kind) : kind \in {"undefined", "null", "zero", "number"}}

OutputContents == {EmptyString, Str(<< "[", "]" >>), NonString("undefined")}

DocumentErrors == {Null, Some(Words(<< "Unexpected", "end", "of", "JSON", "input" >>))}

DocumentPositions == {Null, Some(1)}

FormatArguments == {Null, Some("formatted"), Some("minified"), Some("compact")}

(***************************************************************************)
(* ProcessingState (part_003).  startTime and endTime are null (Null) or   *)
(* the reading of the clock when they were set.                            *)
(***************************************************************************)
MaxClock == 3

\* new ProcessingState()
NewProcessingState ==
  [isProcessing |-> FALSE, processingType |-> Null, progress |-> 0,
   startTime |-> Null, endTime |-> Null]

\* state.startProcessing(type)
StartProcessingOf(state, type, now) ==
  [state EXCEPT
     !.isProcessing = TRUE,
     !.processingType = Some(type),
     !.progress = 0,
     !.startTime = Some(now),
     !.endTime = Null]

\* state.updateProgress(progress)
UpdateProgressOf(state, progress) ==
  IF state.isProcessing
  THEN [state EXCEPT !.progress = Max(0, Min(100, progress))]
  ELSE state

\* state.completeProcessing()
CompleteProcessingOf(state, now) ==
  [state EXCEPT !.isProcessing = FALSE, !.progress = 100, !.endTime = Some(now)]

\* state.cancelProcessing()
CancelProcessingOf(state, now) ==
  [state EXCEPT
     !.isProcessing = FALSE,
     !.processingType = Null,
     !.progress = 0,
     !.endTime = Some(now)]

\* state.reset()
ResetOf(state) ==
  [state EXCEPT
     !.isProcessing = FALSE,
     !.processingType = Null,
     !.progress = 0,
     !.startTime = Null,
     !.endTime = Null]

ProcessingTypes == {"format", "minify", "validate"}

ProgressRequests == {-5, 0, 50, 100, 150}

(***************************************************************************)
(* StorageManager (part_004): the recent documents, kept in localStorage   *)
(* as the JSON text of an array of {rawContent, lastModified, size}.       *)
(***************************************************************************)
MaxRecentDocs == 5
MaxDocSize == 10000

RawContentKey == << "r", "a", "w", "C", "o", "n", "t", "e", "n", "t" >>
LastModifiedKey == << "l", "a", "s", "t", "M", "o", "d", "i", "f", "i", "e", "d" >>
SizeKey == << "s", "i", "z", "e" >>

\* Date.prototype.toISOString: the instant as text; an instant is written
\* as its count of ticks
ToISOString(now) == DecimalString(now)

\* the Number of a count
IntegerNumber(n) == ToNumber(DecimalString(n), << >>, 0)

\* object[key] of a parsed value; a missing property reads as no string
Field(object, key) ==
  IF \E i \in DOMAIN object.keys : object.keys[i] = key
  THEN object.items[CHOOSE i \in DOMAIN object.keys : object.keys[i] = key]
  ELSE JNull

\* document.isEmpty() of a document whose rawContent is a string
IsEmpty(doc) == Trim(doc.rawContent.s) = << >>

\* getRecentDocuments(): the parsed item, [] when it is absent, empty or
\* does not parse
RecentDocumentsOf(parsed) == IF parsed.ok THEN parsed.val.items ELSE << >>

GetRecentDocuments(item) ==
  IF item = Null \/ item[1] = << >> THEN << >>
  ELSE RecentDocumentsOf(JSONParse(item[1]))

\* saveRecentDocument, lines 69-73
DocData(doc) ==
  JObject(<< RawContentKey, LastModifiedKey, SizeKey >>,
          << JString(doc.rawContent.s), JString(ToISOString(doc.lastModified)),
             JNumber(IntegerNumber(doc.size)) >>)

\* recentDocs.splice(index, 1)
RemoveAt(list, index) == SubSeq(list, 1, index - 1) \o SubSeq(list, index + 1, Len(list))

\* saveRecentDocument, lines 63-66: the list without its first entry of the
\* same rawContent
WithoutExisting(recentDocs, doc) ==
  LET same == {i \in DOMAIN recentDocs :
                 Field(recentDocs[i], RawContentKey) = JString(doc.rawContent.s)}
  IN  IF same = {} THEN recentDocs
      ELSE RemoveAt(recentDocs, CHOOSE i \in same : \A j \in same : i <= j)

UnshiftedUncut(list, docData) == << docData >> \o list

\* saveRecentDocument, lines 75-80: docData first, at most maxRecentDocs kept
Unshifted(list, docData) == SubSeq(<< docData >> \o list, 1, Min(MaxRecentDocs, Len(list) + 1))

\* storage.saveRecentDocument(document): the item afterwards and the value
\* returned.  isEmpty throws on a rawContent that is no string, and setItem
\* throws when the browser refuses the write (storable false); both are
\* caught.
SaveRecentDocument(item, doc, storable) ==
  IF ~IsString(doc.rawContent) THEN [item |-> item, ret |-> FALSE]
  ELSE IF IsEmpty(doc) \/ doc.size > MaxDocSize THEN [item |-> item, ret |-> FALSE]
  ELSE IF ~storable THEN [item |-> item, ret |-> FALSE]
  ELSE [item |-> Some(JSONStringify(
                        JArray(Unshifted(WithoutExisting(GetRecentDocuments(item), doc),
                                         DocData(doc))), 0)),
        ret |-> TRUE]

\* the contents of the documents saveRecentDocument is called with
StoreContents ==
  {Str(t) : t \in {<< "1" >>, << "2" >>, << "[", "]" >>, << "\"", "a", "\\", "\"" >>,
                   << "[", "\n", "]" >>, << EAcute >>,
                   << >>, << " ", "\n" >>, Repeat("x", MaxDocSize + 1)}}
    \cup {NonString("null")}

(***************************************************************************)
(* UIManager (part_005, lines 599-940).  Every element of the page is      *)
(* present.  The record holds what the manager reads and writes:           *)
(*   input, output       jsonInput.value, jsonOutput.textContent           *)
(*   inputStats, outputStats  the numbers the statistics lines show, null  *)
(*                       until first written                               *)
(*   selectedFormat      the checked radio button                          *)
(*   indentSize          the value of the indentation select                *)
(*   formatBtnDisabled, copyEnabled, processingClass  the buttons and the  *)
(*                       class of the main container                       *)
(*   errorContent, errorVisible, successText, successVisible  the two      *)
(*                       messages                                          *)
(*   hasError, hasSuccess, isProcessing, currentFormat  this.state         *)
(* The page starts with both messages hidden, the copy button disabled and *)
(* the formatted radio button checked.                                     *)
(***************************************************************************)
NewUI ==
  [input |-> << >>, output |-> << >>, inputStats |-> Null, outputStats |-> Null,
   selectedFormat |-> "formatted", indentSize |-> << "2" >>,
   formatBtnDisabled |-> FALSE, copyEnabled |-> FALSE, processingClass |-> FALSE,
   errorContent |-> << >>, errorVisible |-> FALSE,
   successText |-> << >>, successVisible |-> FALSE,
   hasError |-> FALSE, hasSuccess |-> FALSE, isProcessing |-> FALSE,
   currentFormat |-> "formatted"]

\* _updateInputStats, _updateOutputStats: characters, lines and bytes
StatsOf(text) == Some([chars |-> Len(text), lines |-> LineCount(text),
                       size |-> ByteLength(text)])

\* _updateFormatSelection(format)
UpdateFormatSelection(u, format) ==
  IF format \in {"minified", "formatted"} THEN [u EXCEPT !.selectedFormat = format] ELSE u

\* ui.updateOutputArea(content, format), content a string
UpdateOutputArea(u, content, format) ==
  UpdateFormatSelection([u EXCEPT !.output = content,
                                  !.currentFormat = format,
                                  !.outputStats = StatsOf(content)],
                        format)

\* ui.updateInputArea(content)
UpdateInputArea(u, content) == [u EXCEPT !.input = content, !.inputStats = StatsOf(content)]

\* ui._hideSuccessMessage()
HideSuccessMessage(u) == [u EXCEPT !.hasSuccess = FALSE, !.successVisible = FALSE]

\* ui.hideError()
HideError(u) == [u EXCEPT !.hasError = FALSE, !.errorVisible = FALSE]

\* errorInfo.getFormattedMessage()
GetFormattedMessage(info) ==
  IF info.line # Null /\ info.column # Null
  THEN info.message \o << W("(line"), N(info.line[1]), W("column"), N(info.column[1]) >>
  ELSE IF info.position > 0
  THEN info.message \o << W("(position"), N(info.position) >>
  ELSE info.message

\* showError, lines 677-693: the text shown for error, a string (Some) or a
\* value without a message (Null), and errorInfo
ErrorText(error, errorInfo) ==
  IF errorInfo # Null
  THEN GetFormattedMessage(errorInfo[1])
         \o (IF errorInfo[1].suggestion # Null
             THEN << W("Suggestion:"), W(errorInfo[1].suggestion[1]) >>
             ELSE << >>)
  ELSE IF error # Null THEN error[1]
  ELSE Words(<< "An", "unknown", "error", "occurred" >>)

\* ui.showError(error, errorInfo)
ShowError(u, error, errorInfo) ==
  HideSuccessMessage([u EXCEPT !.hasError = TRUE,
                               !.hasSuccess = FALSE,
                               !.errorContent = ErrorText(error, errorInfo),
                               !.errorVisible = TRUE])

\* what calling this._hideError, which UIManager does not define, throws
HideErrorTypeError == Words(<< "this._hideError", "is", "not", "a", "function" >>)

\* ui.showSuccess(message, duration): the page afterwards and the TypeError
\* thrown at line 734, before the timer of lines 737-741 is set
ShowSuccess(u, message, duration) ==
  [ui |-> [u EXCEPT !.hasSuccess = TRUE,
                    !.hasError = FALSE,
                    !.successText = message,
                    !.successVisible = TRUE],
   threw |-> TRUE, error |-> HideErrorTypeError]

\* ui.updateProcessingState(isProcessing, type)
UpdateProcessingState(u, isProcessing) ==
  [u EXCEPT !.isProcessing = isProcessing,
            !.formatBtnDisabled = isProcessing,
            !.copyEnabled = ~isProcessing,
            !.processingClass = isProcessing]

\* ui.setCopyButtonEnabled(enabled)
SetCopyButtonEnabled(u, enabled) == [u EXCEPT !.copyEnabled = enabled]

\* what the manager's methods are called with
SuccessMessages ==
  {Words(<< "JSON", "formatted", "successfully!" >>), Words(<< "Copied", "to", "clipboard!" >>)}

SuccessDurations == {Null, Some(0), Some(3000)}

UIErrors == {Null, Some(Words(<< "No", "content", "to", "copy" >>))}

UIErrorInfos ==
  {Null, Some(FromValidationError(Words(<< "Content", "is", "empty" >>), 0)),
   Some(FromJSONError(Words(<< "Unexpected", "token" >>)
                        \o << W("]"), W("in"), W("JSON"), W("at"), W("position"), N(1) >>,
                      << "[", "]", "]" >>))}

(***************************************************************************)
(* JSONFormatterApp (main.js).  Time is counted in ticks of 500 ms.        *)
(***************************************************************************)
\* the delay of the auto-format timer: 1000 ms
AutoFormatDelay == 2

\* the timers the browser is asked for at most
MaxTimers == 3

\* the browser's timer table when the page has loaded
NoTimers == [nextId |-> 1, pending |-> {}]

\* setTimeout(callback, delay) at time now; the id it returns is table.nextId
SetTimeout(table, delay, now) ==
  [nextId |-> table.nextId + 1,
   pending |-> table.pending \cup {[id |-> table.nextId, due |-> now + delay]}]

\* clearTimeout(handle), handle undefined (Null) or a timer id
ClearTimeout(table, handle) ==
  [table EXCEPT !.pending = {t \in @ : handle = Null \/ t.id # handle[1]}]

HandleInputChangeNoClear(enabled, handle, table, now) ==
  IF enabled
  THEN [autoFormatTimeout |-> Some(table.nextId),
        timers |-> SetTimeout(table, AutoFormatDelay, now)]
  ELSE [autoFormatTimeout |-> handle, timers |-> table]

\* handleInputChange(), enabled being preferences.autoFormat: the timer
\* handle and the timer table afterwards
HandleInputChange(enabled, handle, table, now) ==
  IF enabled
  THEN [autoFormatTimeout |-> Some(table.nextId),
        timers |-> SetTimeout(ClearTimeout(table, handle), AutoFormatDelay, now)]
  ELSE [autoFormatTimeout |-> handle, timers |-> table]

\* element.textContent = content: the text of a value
TextOf(content) ==
  CASE content.k = "string" -> content.s
    [] content.k = "number" -> << "4", "2" >>
    [] content.k = "object" ->
         << "[", "o", "b", "j", "e", "c", "t", " ", "O", "b", "j", "e", "c", "t", "]" >>
    [] OTHER -> << >>

\* document.hasProcessedContent()
HasProcessedContent(doc) == ~Falsy(doc.formattedContent) \/ ~Falsy(doc.minifiedContent)

\* ui.getSelectedIndentation(): parseInt of the selection, as an option
SelectedIndentation(u) ==
  LET n == ParseInt(IndString(u.indentSize))
  IN  Some(IF n = Null THEN IndNaN ELSE IndNumber(n[1]))

\* the listeners of a format radio button that became checked: the
\* UIManager's, then handleFormatChange()
HandleFormatChange(u, doc, format) ==
  LET selected == [u EXCEPT !.selectedFormat = format, !.currentFormat = format]
      outputContent == GetContent(doc, Some(format))
  IN  IF Falsy(outputContent) THEN selected
      ELSE UpdateOutputArea(selected, TextOf(outputContent), format)

\* handleIndentationChange, lines 198-204, given what formatOnly returned
IndentationChanged(u, doc, result) ==
  IF result.success
  THEN [ui |-> UpdateOutputArea(
                 u, TextOf(GetContent(SetFormattedContentOf(doc, Str(result.formatted)),
                                      Some(u.selectedFormat))),
                 u.selectedFormat),
        document |-> SetFormattedContentOf(doc, Str(result.formatted))]
  ELSE [ui |-> u, document |-> doc]

\* the listener of the indentation selection that changed to size:
\* handleIndentationChange()
HandleIndentationChange(u, doc, size, thisDefault, thisMax, eng, elapsed) ==
  IF HasProcessedContent(doc) /\ doc.isValid
  THEN IndentationChanged([u EXCEPT !.indentSize = size], doc,
                          FormatJSON(thisDefault, thisMax, eng, doc.rawContent,
                                     Options(Null, SelectedIndentation(
                                                     [u EXCEPT !.indentSize = size])),
                                     elapsed))
  ELSE [ui |-> [u EXCEPT !.indentSize = size], document |-> doc]

PleaseEnter == Words(<< "Please", "enter", "some", "JSON", "to", "format" >>)

FormattedSuccessfully == Words(<< "JSON", "formatted", "successfully!" >>)

\* handleFormat, lines 111-128: a successful result; what showSuccess
\* throws is caught at lines 136-140
HandleFormatSucceeded(u, ps, doc, item, processed, storable, shown) ==
  [ui |-> IF shown.threw
          THEN SetCopyButtonEnabled(
                 ShowError(shown.ui,
                           Some(Words(<< "Formatting", "failed:" >>) \o shown.error), Null),
                 FALSE)
          ELSE shown.ui,
   processingState |-> ps,
   document |-> doc,
   item |-> SaveRecentDocument(item, doc, storable).item,
   result |-> Some(processed)]

\* handleFormat, lines 129-135: a failed result
HandleFormatFailed(u, ps, doc, item, processed) ==
  [ui |-> SetCopyButtonEnabled(
            UpdateOutputArea(ShowError(u, processed.result.error,
                                       processed.result.errorInfo),
                             << >>, "formatted"),
            FALSE),
   processingState |-> ps,
   document |-> SetValidationStateOf(doc, FALSE, processed.result.error, Null),
   item |-> item,
   result |-> Some(processed)]

HandleFormatNoFinally(outcome, now) == outcome

\* handleFormat, lines 141-145: the finally block
HandleFormatFinally(outcome, now) ==
  [outcome EXCEPT !.ui = UpdateProcessingState(@, FALSE),
                  !.processingState = CompleteProcessingOf(@, now)]

\* handleFormat, lines 100-145, given what processWithFormat returned
HandleFormatProcessed(u, ps, doc, item, processed, now, storable) ==
  HandleFormatFinally(
    IF processed.result.success
    THEN HandleFormatSucceeded(
           u, ps,
           SetValidationStateOf(
             SetMinifiedContentOf(
               SetFormattedContentOf(doc, Str(processed.result.formatted)),
               Str(processed.result.minified)),
             TRUE, Null, Null),
           item, processed, storable,
           ShowSuccess(SetCopyButtonEnabled(
                         UpdateOutputArea(u, processed.output[1], u.selectedFormat), TRUE),
                       FormattedSuccessfully, Null))
    ELSE HandleFormatFailed(u, ps, doc, item, processed),
    now)

\* handleFormat() at time now, limit being the validator's maxSize: the page,
\* the processing state, the document and the stored list afterwards, and
\* what processWithFormat returned when it was called
HandleFormat(u, ps, doc, item, limit, thisDefault, thisMax, eng, now, times, storable) ==
  IF Trim(u.input) = << >>
  THEN [ui |-> ShowError(u, Some(PleaseEnter), Null),
        processingState |-> ps,
        document |-> doc,
        item |-> item,
        result |-> Null]
  ELSE HandleFormatProcessed(
         UpdateProcessingState(u, TRUE),
         StartProcessingOf(ps, "format", now),
         SetRawContentOf(doc, Str(u.input), now),
         item,
         ProcessWithFormat(limit, thisDefault, thisMax, eng, Str(u.input),
                           u.selectedFormat,
                           Options(Some(limit), SelectedIndentation(u)), times),
         now, storable)

\* what the user types into the input area, and the indentations on offer
InputTexts == {<< " " >>, << "[" >>, << "[", "1", "]" >>, << "1" >>}

IndentSizes == {<< "2" >>, << "4" >>}


(***************************************************************************)
(* State                                                                   *)
(***************************************************************************)
VARIABLES
  engine,              \* the JavaScript engine the program runs on
  maxSize,             \* JSONValidator.maxSize
  defaultIndentation,  \* JSONFormatter.defaultIndentation
  maxIndentation,      \* JSONFormatter.maxIndentation
  call,                \* the last public call: its name, arguments and outcome
  document,            \* the JSONDocument the application holds
  clock,               \* the time new Date() reads, in ticks
  processingState,     \* the ProcessingState the application holds
  recentDocsItem,      \* localStorage['json-formatter-recent-docs']: absent or a text
  ui,                  \* the page as the UIManager sees it, and the UIManager's state
  autoFormat,          \* preferences.autoFormat of the application
  autoFormatTimeout,   \* the application's autoFormatTimeout: unset or a timer id
  timers,              \* the browser's timers: the next id and the pending ones
  lastInputAt          \* history: when the last input event happened, if any did

vars ==
  << engine, maxSize, defaultIndentation, maxIndentation, call, document, clock,
     processingState, recentDocsItem, ui, autoFormat, autoFormatTimeout, timers,
     lastInputAt >>

\* the arguments only the ErrorInfo factories take: absent
NoArgs ==
  [message |-> << >>, position |-> Null, actualSize |-> 0, maxSize |-> 0, format |-> Null,
   item |-> Null, before |-> Null, timer |-> Null]

\* a public call that returned ret
Returned(op, content, options, ret) ==
  [op |-> op, content |-> content, format |-> "", options |-> options,
   args |-> NoArgs, ret |-> ret, threw |-> FALSE]

\* a public call that threw error instead of returning
Threw(op, content, options, error) ==
  [op |-> op, content |-> content, format |-> "", options |-> options,
   args |-> NoArgs, ret |-> Some(error), threw |-> TRUE]

\* no call is in progress: the caller holds no result
Idle == Returned("none", NonString("undefined"), Options(Null, Null), Null)

Init ==
  /\ engine \in Engines
  /\ maxSize = DefaultMaxSize
  /\ defaultIndentation = DefaultIndentation
  /\ maxIndentation = IndentationCeiling
  /\ call = Idle
  /\ clock = 0
  /\ document = NewJSONDocument(NonString("undefined"), 0)
  /\ processingState = NewProcessingState
  /\ recentDocsItem = Null
  /\ ui = NewUI
  /\ autoFormat \in BOOLEAN
  /\ autoFormatTimeout = Null
  /\ timers = NoTimers
  /\ lastInputAt = Null

\* the caller has consumed the result of its last call and goes on
Continue ==
  /\ call # Idle
  /\ call' = Idle
  /\ UNCHANGED << engine, maxSize, defaultIndentation, maxIndentation, document, clock,
                  processingState, recentDocsItem, ui, autoFormat, autoFormatTimeout,
                  timers, lastInputAt >>

(***************************************************************************)
(* The validator's operations                                              *)
(***************************************************************************)
SetMaxSize ==
  /\ call = Idle
  /\ \E requested \in MaxSizeRequests :
    /\ maxSize' = SetMaxSizeValue(requested)
    /\ UNCHANGED << engine, defaultIndentation, maxIndentation, call, document, clock,
                    processingState, recentDocsItem, ui, autoFormat, autoFormatTimeout,
                    timers, lastInputAt >>

CallValidateJSON ==
  /\ call = Idle
  /\ \E input \in ValidatorInputs, elapsed \in Ticks :
    /\ call' = Returned("validateJSON", input[1], input[2],
                        ValidateJSON(maxSize, engine, input[1], input[2], elapsed))
    /\ UNCHANGED << engine, maxSize, defaultIndentation, maxIndentation, document,
                    clock, processingState, recentDocsItem, ui, autoFormat,
                    autoFormatTimeout, timers, lastInputAt >>

(***************************************************************************)
(* The narrow entry points of the validator                                *)
(***************************************************************************)
CallValidateSize ==
  /\ call = Idle
  /\ \E content \in WrapperContents, maxSizeArg \in MaxSizeOptions :
       /\ call' = Returned("validateSize", content, Options(maxSizeArg, Null),
                           ValidateSize(maxSize, content, maxSizeArg))
       /\ UNCHANGED << engine, maxSize, defaultIndentation, maxIndentation, document,
                       clock, processingState, recentDocsItem, ui, autoFormat,
                       autoFormatTimeout, timers, lastInputAt >>

CallValidateSyntax ==
  /\ call = Idle
  /\ \E content \in WrapperContents :
       /\ call' = Returned("validateSyntax", content, Options(Null, Null),
                           ValidateSyntax(engine, content))
       /\ UNCHANGED << engine, maxSize, defaultIndentation, maxIndentation, document,
                       clock, processingState, recentDocsItem, ui, autoFormat,
                       autoFormatTimeout, timers, lastInputAt >>

NextValidator ==
  SetMaxSize \/ CallValidateJSON \/ CallValidateSize \/ CallValidateSyntax \/ Continue

SpecValidator == Init /\ [][NextValidator]_vars

(***************************************************************************)
(* The formatter's operations                                              *)
(***************************************************************************)
SetDefaultIndentation ==
  /\ call = Idle
  /\ \E indentation \in IndentationRequests :
       /\ defaultIndentation' =
            SetDefaultIndentationValue(defaultIndentation, maxIndentation, indentation)
       /\ UNCHANGED << engine, maxSize, maxIndentation, call, document, clock,
                       processingState, recentDocsItem, ui, autoFormat,
                       autoFormatTimeout, timers, lastInputAt >>

SetMaxIndentation ==
  /\ call = Idle
  /\ \E requested \in MaxIndentationRequests :
       /\ maxIndentation' = SetMaxIndentationValue(requested)
       /\ UNCHANGED << engine, maxSize, defaultIndentation, call, document, clock,
                       processingState, recentDocsItem, ui, autoFormat,
                       autoFormatTimeout, timers, lastInputAt >>

CallFormatJSON ==
  /\ call = Idle
  /\ \E content \in FormatContents, indentation \in IndentationOptions, elapsed \in Ticks :
       /\ call' = Returned("formatJSON", content, Options(Null, indentation),
                           FormatJSON(defaultIndentation, maxIndentation, engine, content,
                                      Options(Null, indentation), elapsed))
       /\ UNCHANGED << engine, maxSize, defaultIndentation, maxIndentation, document,
                       clock, processingState, recentDocsItem, ui, autoFormat,
                       autoFormatTimeout, timers, lastInputAt >>

CallMinifyJSON ==
  /\ call = Idle
  /\ \E content \in FormatContents, elapsed \in Ticks :
       /\ call' = Returned("minifyJSON", content, Options(Null, Null),
                           MinifyJSON(engine, content, elapsed))
       /\ UNCHANGED << engine, maxSize, defaultIndentation, maxIndentation, document,
                       clock, processingState, recentDocsItem, ui, autoFormat,
                       autoFormatTimeout, timers, lastInputAt >>

NextFormatter ==
  SetDefaultIndentation \/ SetMaxIndentation \/ CallFormatJSON \/ CallMinifyJSON \/ Continue

SpecFormatter == Init /\ [][NextFormatter]_vars

(***************************************************************************)
(* The processor's operations                                              *)
(***************************************************************************)
\* JSONProcessor.setOptions
SetOptions ==
  /\ call = Idle
  /\ \E options \in SetOptionsRequests :
       /\ maxSize' = IF options.maxSize # Null
                     THEN SetMaxSizeValue(options.maxSize[1]) ELSE maxSize
       /\ defaultIndentation' =
            IF options.indentation # Null
            THEN SetDefaultIndentationValue(defaultIndentation, maxIndentation,
                                            options.indentation[1])
            ELSE defaultIndentation
       /\ UNCHANGED << engine, maxIndentation, call, document, clock, processingState,
                       recentDocsItem, ui, autoFormat, autoFormatTimeout, timers,
                       lastInputAt >>

CallProcessJSON ==
  /\ call = Idle
  /\ \E content \in FormatContents, options \in ProcessorOptions \cup {NullOptions},
        times \in Timings :
       /\ call' = Returned("processJSON", content, options,
                           ProcessJSON(maxSize, defaultIndentation, maxIndentation, engine,
                                       content, options, times))
       /\ UNCHANGED << engine, maxSize, defaultIndentation, maxIndentation, document,
                       clock, processingState, recentDocsItem, ui, autoFormat,
                       autoFormatTimeout, timers, lastInputAt >>

CallProcessWithFormat ==
  /\ call = Idle
  /\ \E content \in WrapperContents, format \in {"formatted", "minified"},
        options \in ProcessorOptions \cup {NullOptions}, times \in Timings :
       /\ call' = [Returned("processWithFormat", content, options,
                            ProcessWithFormat(maxSize, defaultIndentation, maxIndentation,
                                              engine, content, format, options, times))
                     EXCEPT !.format = format]
       /\ UNCHANGED << engine, maxSize, defaultIndentation, maxIndentation, document,
                       clock, processingState, recentDocsItem, ui, autoFormat,
                       autoFormatTimeout, timers, lastInputAt >>

CallGetProcessingStats ==
  /\ call = Idle
  /\ \E content \in WrapperContents, options \in ProcessorOptions, times \in Timings :
       LET stats == GetProcessingStats(maxSize, defaultIndentation, maxIndentation, engine,
                                       content, options, times)
       IN  /\ call' = IF stats.threw
                      THEN Threw("getProcessingStats", content, options, stats.error[1])
                      ELSE Returned("getProcessingStats", content, options, stats.value[1])
           /\ UNCHANGED << engine, maxSize, defaultIndentation, maxIndentation,
                           document, clock, processingState, recentDocsItem, ui,
                           autoFormat, autoFormatTimeout, timers, lastInputAt >>

NextProcessor ==
  SetOptions \/ CallProcessJSON \/ CallProcessWithFormat \/ CallGetProcessingStats \/ Continue

SpecProcessor == Init /\ [][NextProcessor]_vars

(***************************************************************************)
(* The ErrorInfo factories                                                 *)
(***************************************************************************)
CallFromJSONError ==
  /\ call = Idle
  /\ \E message \in ErrorMessages, content \in ErrorTexts :
       /\ call' = [Returned("fromJSONError", Str(content), Options(Null, Null),
                            FromJSONError(message, content))
                     EXCEPT !.args.message = message]
       /\ UNCHANGED << engine, maxSize, defaultIndentation, maxIndentation, document,
                       clock, processingState, recentDocsItem, ui, autoFormat,
                       autoFormatTimeout, timers, lastInputAt >>

CallFromValidationError ==
  /\ call = Idle
  /\ \E message \in OtherMessages, position \in PositionArguments :
       /\ call' = [Returned("fromValidationError", NonString("undefined"),
                            Options(Null, Null),
                            FromValidationError(message, OrAbsent(position, 0)))
                     EXCEPT !.args.message = message, !.args.position = position]
       /\ UNCHANGED << engine, maxSize, defaultIndentation, maxIndentation, document,
                       clock, processingState, recentDocsItem, ui, autoFormat,
                       autoFormatTimeout, timers, lastInputAt >>

CallFromSizeError ==
  /\ call = Idle
  /\ \E actualSize \in SizeArguments, limit \in SizeArguments :
       /\ call' = [Returned("fromSizeError", NonString("undefined"), Options(Null, Null),
                            FromSizeError(actualSize, limit))
                     EXCEPT !.args.actualSize = actualSize, !.args.maxSize = limit]
       /\ UNCHANGED << engine, maxSize, defaultIndentation, maxIndentation, document,
                       clock, processingState, recentDocsItem, ui, autoFormat,
                       autoFormatTimeout, timers, lastInputAt >>

NextErrorInfo ==
  CallFromJSONError \/ CallFromValidationError \/ CallFromSizeError \/ Continue

SpecErrorInfo == Init /\ [][NextErrorInfo]_vars

\* time passes
Tick ==
  /\ clock < MaxClock
  /\ clock' = clock + 1
  /\ UNCHANGED << engine, maxSize, defaultIndentation, maxIndentation, call, document,
                  processingState, recentDocsItem, ui, autoFormat, autoFormatTimeout,
                  timers, lastInputAt >>

(***************************************************************************)
(* The document's operations.  A setter returns undefined (Null); the call *)
(* records its name and its content argument.                              *)
(***************************************************************************)
Construct ==
  /\ call = Idle
  /\ \E content \in DocumentContents :
       /\ document' = NewJSONDocument(content, clock)
       /\ call' = Returned("JSONDocument", content, Options(Null, Null), Null)
       /\ UNCHANGED << engine, maxSize, defaultIndentation, maxIndentation, clock,
                       processingState, recentDocsItem, ui, autoFormat,
                       autoFormatTimeout, timers, lastInputAt >>

SetRawContent ==
  /\ call = Idle
  /\ \E content \in DocumentContents :
       /\ document' = SetRawContentOf(document, content, clock)
       /\ call' = Returned("setRawContent", content, Options(Null, Null), Null)
       /\ UNCHANGED << engine, maxSize, defaultIndentation, maxIndentation, clock,
                       processingState, recentDocsItem, ui, autoFormat,
                       autoFormatTimeout, timers, lastInputAt >>

SetFormattedContent ==
  /\ call = Idle
  /\ \E content \in OutputContents :
       /\ document' = SetFormattedContentOf(document, content)
       /\ call' = Returned("setFormattedContent", content, Options(Null, Null), Null)
       /\ UNCHANGED << engine, maxSize, defaultIndentation, maxIndentation, clock,
                       processingState, recentDocsItem, ui, autoFormat,
                       autoFormatTimeout, timers, lastInputAt >>

SetMinifiedContent ==
  /\ call = Idle
  /\ \E content \in OutputContents :
       /\ document' = SetMinifiedContentOf(document, content)
       /\ call' = Returned("setMinifiedContent", content, Options(Null, Null), Null)
       /\ UNCHANGED << engine, maxSize, defaultIndentation, maxIndentation, clock,
                       processingState, recentDocsItem, ui, autoFormat,
                       autoFormatTimeout, timers, lastInputAt >>

SetValidationState ==
  /\ call = Idle
  /\ \E isValid \in BOOLEAN, errorMessage \in DocumentErrors,
        errorPosition \in DocumentPositions :
       /\ document' = SetValidationStateOf(document, isValid, errorMessage, errorPosition)
       /\ call' = Returned("setValidationState", NonString("undefined"),
                            Options(Null, Null), Null)
       /\ UNCHANGED << engine, maxSize, defaultIndentation, maxIndentation, clock,
                       processingState, recentDocsItem, ui, autoFormat,
                       autoFormatTimeout, timers, lastInputAt >>

\* the application goes on with the copy
CallClone ==
  /\ call = Idle
  /\ document' = Clone(document, clock)
  /\ call' = Returned("clone", NonString("undefined"), Options(Null, Null), Null)
  /\ UNCHANGED << engine, maxSize, defaultIndentation, maxIndentation, clock,
                  processingState, recentDocsItem, ui, autoFormat, autoFormatTimeout,
                  timers, lastInputAt >>

CallDocumentValidateSize ==
  /\ call = Idle
  /\ \E maxSizeArg \in MaxSizeOptions :
       /\ call' = Returned("JSONDocument.validateSize", document.rawContent,
                            Options(maxSizeArg, Null),
                            DocumentValidateSize(document, maxSizeArg))
       /\ UNCHANGED << engine, maxSize, defaultIndentation, maxIndentation, document,
                       clock, processingState, recentDocsItem, ui, autoFormat,
                       autoFormatTimeout, timers, lastInputAt >>

CallGetContent ==
  /\ call = Idle
  /\ \E format \in FormatArguments :
       /\ call' = [Returned("getContent", NonString("undefined"), Options(Null, Null),
                            GetContent(document, format))
                     EXCEPT !.args.format = format]
       /\ UNCHANGED << engine, maxSize, defaultIndentation, maxIndentation, document,
                       clock, processingState, recentDocsItem, ui, autoFormat,
                       autoFormatTimeout, timers, lastInputAt >>

NextDocument ==
  \/ Construct \/ SetRawContent \/ SetFormattedContent \/ SetMinifiedContent
  \/ SetValidationState \/ CallClone \/ CallDocumentValidateSize \/ CallGetContent
  \/ Tick \/ Continue

SpecDocument == Init /\ [][NextDocument]_vars

(***************************************************************************)
(* The operations of the processing state                                  *)
(***************************************************************************)
StartProcessing ==
  /\ \E type \in ProcessingTypes :
       processingState' = StartProcessingOf(processingState, type, clock)
  /\ UNCHANGED << engine, maxSize, defaultIndentation, maxIndentation, call, document,
                  clock, recentDocsItem, ui, autoFormat, autoFormatTimeout, timers,
                  lastInputAt >>

UpdateProgress ==
  /\ \E progress \in ProgressRequests :
       processingState' = UpdateProgressOf(processingState, progress)
  /\ UNCHANGED << engine, maxSize, defaultIndentation, maxIndentation, call, document,
                  clock, recentDocsItem, ui, autoFormat, autoFormatTimeout, timers,
                  lastInputAt >>

CompleteProcessing ==
  /\ processingState' = CompleteProcessingOf(processingState, clock)
  /\ UNCHANGED << engine, maxSize, defaultIndentation, maxIndentation, call, document,
                  clock, recentDocsItem, ui, autoFormat, autoFormatTimeout, timers,
                  lastInputAt >>

CancelProcessing ==
  /\ processingState' = CancelProcessingOf(processingState, clock)
  /\ UNCHANGED << engine, maxSize, defaultIndentation, maxIndentation, call, document,
                  clock, recentDocsItem, ui, autoFormat, autoFormatTimeout, timers,
                  lastInputAt >>

Reset ==
  /\ processingState' = ResetOf(processingState)
  /\ UNCHANGED << engine, maxSize, defaultIndentation, maxIndentation, call, document,
                  clock, recentDocsItem, ui, autoFormat, autoFormatTimeout, timers,
                  lastInputAt >>

NextProcessingState ==
  \/ StartProcessing \/ UpdateProgress \/ CompleteProcessing \/ CancelProcessing
  \/ Reset \/ Tick

SpecProcessingState == Init /\ [][NextProcessingState]_vars

(***************************************************************************)
(* The storage manager's operation.  The call records, as args.item, the   *)
(* stored item it found.                                                   *)
(***************************************************************************)
CallSaveRecentDocument ==
  /\ call = Idle
  /\ \E content \in StoreContents, storable \in BOOLEAN :
       LET saved == SaveRecentDocument(recentDocsItem, NewJSONDocument(content, clock),
                                       storable)
       IN  /\ recentDocsItem' = saved.item
           /\ call' = [Returned("saveRecentDocument", content, Options(Null, Null),
                                saved.ret)
                         EXCEPT !.args.item = recentDocsItem]
  /\ UNCHANGED << engine, maxSize, defaultIndentation, maxIndentation, document, clock,
                  processingState, ui, autoFormat, autoFormatTimeout, timers,
                  lastInputAt >>

NextStorage == CallSaveRecentDocument \/ Continue

SpecStorage == Init /\ [][NextStorage]_vars

(***************************************************************************)
(* The UIManager's operations and the listeners it registers itself        *)
(***************************************************************************)
CallShowSuccess ==
  /\ call = Idle
  /\ \E message \in SuccessMessages, duration \in SuccessDurations :
       LET shown == ShowSuccess(ui, message, duration)
       IN  /\ ui' = shown.ui
           /\ call' = [(IF shown.threw
                        THEN Threw("showSuccess", NonString("undefined"),
                                   Options(Null, Null), shown.error)
                        ELSE Returned("showSuccess", NonString("undefined"),
                                      Options(Null, Null), Null))
                         EXCEPT !.args.message = message, !.args.position = duration]
  /\ UNCHANGED << engine, maxSize, defaultIndentation, maxIndentation, document, clock,
                  processingState, recentDocsItem, autoFormat, autoFormatTimeout,
                  timers, lastInputAt >>

CallShowError ==
  /\ call = Idle
  /\ \E error \in UIErrors, errorInfo \in UIErrorInfos :
       /\ ui' = ShowError(ui, error, errorInfo)
       /\ call' = Returned("showError", NonString("undefined"), Options(Null, Null), Null)
  /\ UNCHANGED << engine, maxSize, defaultIndentation, maxIndentation, document, clock,
                  processingState, recentDocsItem, autoFormat, autoFormatTimeout,
                  timers, lastInputAt >>

\* a click on the close button of the error section
CloseError ==
  /\ call = Idle
  /\ ui.errorVisible
  /\ ui' = HideError(ui)
  /\ UNCHANGED << engine, maxSize, defaultIndentation, maxIndentation, call, document,
                  clock, processingState, recentDocsItem, autoFormat, autoFormatTimeout,
                  timers, lastInputAt >>

\* a click on the clear button of the output area
ClearOutput ==
  /\ call = Idle
  /\ ui' = SetCopyButtonEnabled(UpdateOutputArea(ui, << >>, "formatted"), FALSE)
  /\ UNCHANGED << engine, maxSize, defaultIndentation, maxIndentation, call, document,
                  clock, processingState, recentDocsItem, autoFormat, autoFormatTimeout,
                  timers, lastInputAt >>

\* a click on the clear button of the input area
ClearInput ==
  /\ call = Idle
  /\ ui' = HideSuccessMessage(HideError(UpdateInputArea(ui, << >>)))
  /\ UNCHANGED << engine, maxSize, defaultIndentation, maxIndentation, call, document,
                  clock, processingState, recentDocsItem, autoFormat, autoFormatTimeout,
                  timers, lastInputAt >>

NextUI ==
  CallShowSuccess \/ CallShowError \/ CloseError \/ ClearOutput \/ ClearInput \/ Continue

SpecUI == Init /\ [][NextUI]_vars

(***************************************************************************)
(* The whole program                                                       *)
(***************************************************************************)
(***************************************************************************)
(* The application's event handlers.  A handleFormat call records what     *)
(* processWithFormat returned, as args.before the document, the processing *)
(* state and the page it found, and as args.timer the timer that ran it.   *)
(***************************************************************************)
\* the user edits the input area: the UIManager's input listener, then
\* handleInputChange()
TypeInput ==
  /\ call = Idle
  /\ autoFormat => timers.nextId <= MaxTimers
  /\ \E text \in InputTexts :
       /\ text # ui.input
       /\ ui' = HideSuccessMessage(HideError(UpdateInputArea(ui, text)))
  /\ LET armed == HandleInputChange(autoFormat, autoFormatTimeout, timers, clock)
     IN  /\ autoFormatTimeout' = armed.autoFormatTimeout
         /\ timers' = armed.timers
  /\ lastInputAt' = Some(clock)
  /\ UNCHANGED << engine, maxSize, defaultIndentation, maxIndentation, call, document,
                  clock, processingState, recentDocsItem, autoFormat >>

\* handleFormat() has run with the given outcome
FormatHandled(outcome, timer) ==
  /\ ui' = outcome.ui
  /\ processingState' = outcome.processingState
  /\ document' = outcome.document
  /\ recentDocsItem' = outcome.item
  /\ call' = [Returned("handleFormat", Str(ui.input), Options(Null, Null), outcome.result)
                EXCEPT !.args.before = Some([document |-> document,
                                             processingState |-> processingState,
                                             ui |-> ui]),
                       !.args.timer = timer]

\* a click on the format button
ClickFormat ==
  /\ call = Idle
  /\ ~ui.formatBtnDisabled
  /\ \E times \in Timings, storable \in BOOLEAN :
       FormatHandled(HandleFormat(ui, processingState, document, recentDocsItem, maxSize,
                                  defaultIndentation, maxIndentation, engine, clock, times,
                                  storable),
                     Null)
  /\ UNCHANGED << engine, maxSize, defaultIndentation, maxIndentation, clock, autoFormat,
                  autoFormatTimeout, timers, lastInputAt >>

\* a pending timer is due and the browser runs its callback
FireAutoFormat ==
  /\ call = Idle
  /\ \E t \in timers.pending :
       /\ clock >= t.due
       /\ timers' = [timers EXCEPT !.pending = @ \ {t}]
       /\ \E times \in Timings, storable \in BOOLEAN :
            FormatHandled(HandleFormat(ui, processingState, document, recentDocsItem,
                                       maxSize, defaultIndentation, maxIndentation, engine,
                                       clock, times, storable),
                          Some(t))
  /\ UNCHANGED << engine, maxSize, defaultIndentation, maxIndentation, clock, autoFormat,
                  autoFormatTimeout, lastInputAt >>

\* the user checks the other format radio button
ToggleFormat ==
  /\ call = Idle
  /\ \E format \in {"formatted", "minified"} :
       /\ format # ui.selectedFormat
       /\ ui' = HandleFormatChange(ui, document, format)
  /\ UNCHANGED << engine, maxSize, defaultIndentation, maxIndentation, call, document,
                  clock, processingState, recentDocsItem, autoFormat, autoFormatTimeout,
                  timers, lastInputAt >>

\* the user selects another indentation
ChangeIndentation ==
  /\ call = Idle
  /\ \E size \in IndentSizes, elapsed \in Ticks :
       /\ size # ui.indentSize
       /\ LET changed == HandleIndentationChange(ui, document, size, defaultIndentation,
                                                 maxIndentation, engine, elapsed)
          IN  /\ ui' = changed.ui
              /\ document' = changed.document
  /\ UNCHANGED << engine, maxSize, defaultIndentation, maxIndentation, call, clock,
                  processingState, recentDocsItem, autoFormat, autoFormatTimeout, timers,
                  lastInputAt >>

\* the user works with the page
NextApp ==
  \/ TypeInput \/ ClickFormat \/ ToggleFormat \/ ChangeIndentation
  \/ ClearOutput \/ ClearInput \/ CloseError \/ Continue

SpecApp == Init /\ [][NextApp]_vars

\* the user types and time passes
NextAutoFormat == TypeInput \/ FireAutoFormat \/ Tick \/ Continue

SpecAutoFormat == Init /\ [][NextAutoFormat]_vars

Next ==
  \/ SetMaxSize \/ CallValidateJSON \/ CallValidateSize \/ CallValidateSyntax
  \/ SetDefaultIndentation \/ SetMaxIndentation \/ CallFormatJSON \/ CallMinifyJSON
  \/ SetOptions \/ CallProcessJSON \/ CallProcessWithFormat \/ CallGetProcessingStats
  \/ CallFromJSONError \/ CallFromValidationError \/ CallFromSizeError
  \/ Construct \/ SetRawContent \/ SetFormattedContent \/ SetMinifiedContent
  \/ SetValidationState \/ CallClone \/ CallDocumentValidateSize \/ CallGetContent
  \/ StartProcessing \/ UpdateProgress \/ CompleteProcessing \/ CancelProcessing
  \/ Reset \/ Tick
  \/ CallSaveRecentDocument
  \/ TypeInput \/ ClickFormat \/ FireAutoFormat \/ ToggleFormat \/ ChangeIndentation
  \/ CallShowSuccess \/ CallShowError \/ CloseError \/ ClearOutput \/ ClearInput
  \/ Continue

Spec == Init /\ [][Next]_vars

(***************************************************************************)
(* Properties of the validator                                             *)
(***************************************************************************)
\* the limit validateJSON compares the size with in the last call
LimitInForce == OrElse(call.options.maxSize, maxSize)

Blank(s) == \A i \in DOMAIN s : s[i] \in Whitespace

DiagnosticType(ret) == ret.errorInfo[1].type
DiagnosticMessage(ret) == ret.errorInfo[1].message

\* C1: validateJSON runs its checks in the order content, size, whitespace,
\* parse and returns the diagnostic of the first check that fails, running
\* no later check; parseTime is 0 unless the parse was attempted.
C1_CheckOrder ==
  call.op = "validateJSON" =>
    LET c == call.content
        r == call.ret
    IN  /\ IF Falsy(c) \/ ~IsString(c)
           THEN /\ r.checks = << "content" >>
                /\ ~r.isValid
                /\ r.error = Some(Words(<< "No", "content", "provided" >>))
                /\ DiagnosticType(r) = "validation"
           ELSE IF ByteLength(c.s) > LimitInForce
           THEN /\ r.checks = << "content", "size" >>
                /\ ~r.isValid
                /\ DiagnosticType(r) = "size"
           ELSE IF Blank(c.s)
           THEN /\ r.checks = << "content", "size", "trim" >>
                /\ ~r.isValid
                /\ r.error = Some(Words(<< "Content", "is", "empty" >>))
                /\ DiagnosticMessage(r) = Words(<< "Content", "is", "empty" >>)
                /\ DiagnosticType(r) = "validation"
           ELSE r.checks = << "content", "size", "trim", "parse" >>
        /\ ("parse" \notin {r.checks[i] : i \in DOMAIN r.checks} => r.parseTime = 0)

\* a whitespace-only text over the limit was rejected as a size error
C1_Witness ==
  /\ call.op = "validateJSON"
  /\ IsString(call.content)
  /\ call.content.s # << >>
  /\ Blank(call.content.s)
  /\ ByteLength(call.content.s) > LimitInForce
  /\ DiagnosticType(call.ret) = "size"
  /\ call.ret.parseTime = 0

\* C2: the result of validateJSON carries a diagnostic (error and errorInfo)
\* exactly when isValid is false.
C2_DiagnosticIffInvalid ==
  call.op = "validateJSON" =>
    /\ (call.ret.error # Null) <=> ~call.ret.isValid
    /\ (call.ret.errorInfo # Null) <=> ~call.ret.isValid

\* a text was rejected by the parse and carries both error and errorInfo
C2_Witness ==
  /\ call.op = "validateJSON"
  /\ ~call.ret.isValid
  /\ call.ret.error # Null
  /\ call.ret.errorInfo # Null
  /\ "parse" \in {call.ret.checks[i] : i \in DOMAIN call.ret.checks}

\* C3: with the per-call option maxSize = N, a text of exactly N bytes has
\* sizeValid = TRUE and a text of N + 1 bytes has sizeValid = FALSE,
\* isValid = FALSE and a diagnostic of type size.
C3_SizeBoundary ==
  (call.op = "validateJSON" /\ IsString(call.content)
     /\ call.options.maxSize # Null /\ call.options.maxSize[1] >= 0) =>
    LET n == call.options.maxSize[1]
        bytes == ByteLength(call.content.s)
        r == call.ret
    IN  /\ bytes = n => r.sizeValid
        /\ bytes = n + 1 =>
             (~r.sizeValid /\ ~r.isValid /\ r.errorInfo # Null /\ DiagnosticType(r) = "size")

\* C4: the size of every validateJSON result is the byte length of the
\* content when it is a string (0 when it is none), also when the call
\* rejects it before parsing.
C4_SizeAlwaysComputed ==
  call.op = "validateJSON" =>
    call.ret.size = IF IsString(call.content) THEN ByteLength(call.content.s) ELSE 0

\* scenario 4: 2,000 characters under a limit of 1,000 bytes
C4_Witness ==
  /\ call.op = "validateJSON"
  /\ call.content = Str(ScenarioText)
  /\ call.options.maxSize = Some(ScenarioLimit)
  /\ ~call.ret.isValid
  /\ DiagnosticType(call.ret) = "size"
  /\ call.ret.size = ScenarioLength
  /\ call.ret.checks = << "content", "size" >>

\* C5 as stated: every text that JSON.parse rejects is rejected by
\* validateJSON with a diagnostic of type syntax and a position >= 0.
C5_ParseFailureIsSyntax ==
  (call.op = "validateJSON" /\ IsString(call.content) /\ ~JSONParse(call.content.s).ok) =>
    /\ ~call.ret.isValid
    /\ call.ret.errorInfo # Null
    /\ DiagnosticType(call.ret) = "syntax"
    /\ call.ret.errorInfo[1].position >= 0

\* C5 amended: every text that is not blank, is within the limit in force
\* and is rejected by JSON.parse is rejected by validateJSON with a
\* diagnostic of type syntax and a position >= 0.
C5_ReachedParseFailureIsSyntax ==
  (call.op = "validateJSON" /\ IsString(call.content)
     /\ ~Blank(call.content.s)
     /\ ByteLength(call.content.s) <= LimitInForce
     /\ ~JSONParse(call.content.s).ok) =>
    /\ ~call.ret.isValid
    /\ call.ret.errorInfo # Null
    /\ DiagnosticType(call.ret) = "syntax"
    /\ call.ret.errorInfo[1].position >= 0

\* the trailing comma of scenario 2 was rejected as a syntax error
C5_Witness ==
  /\ call.op = "validateJSON"
  /\ call.content = Str(<< "{", "\"", "a", "\"", ":", " ", "1", ",", "}" >>)
  /\ ~call.ret.isValid
  /\ DiagnosticType(call.ret) = "syntax"
  /\ call.ret.errorInfo[1].position >= 0

\* C6: a syntactically valid JSON text within the limit in force is
\* accepted: isValid is TRUE and there is no diagnostic.
C6_ValidWithinLimitAccepted ==
  (call.op = "validateJSON" /\ IsString(call.content)
     /\ JSONParse(call.content.s).ok
     /\ ByteLength(call.content.s) <= LimitInForce) =>
    /\ call.ret.isValid
    /\ call.ret.error = Null
    /\ call.ret.errorInfo = Null

\* a valid text of exactly as many bytes as the per-call limit was accepted
C6_Witness ==
  /\ call.op = "validateJSON"
  /\ IsString(call.content)
  /\ call.options.maxSize = Some(ByteLength(call.content.s))
  /\ JSONParse(call.content.s).ok
  /\ call.ret.isValid
  /\ call.ret.errorInfo = Null

\* what validateJSON returns for the content of the call, under the limit
\* the call was given
FullValidation ==
  ValidateJSON(maxSize, engine, call.content, Options(call.options.maxSize, Null), 0)

SizeAgrees ==
  (call.op = "validateSize" /\ IsString(call.content) /\ call.options.maxSize # Null) =>
    call.ret.isValid = FullValidation.sizeValid

SyntaxAgrees ==
  (call.op = "validateSyntax" /\ IsString(call.content) /\ FullValidation.sizeValid) =>
    /\ call.ret.isValid = FullValidation.isValid
    /\ call.ret.error = FullValidation.error
    /\ (call.ret.errorInfo = Null) <=> (FullValidation.errorInfo = Null)
    /\ call.ret.errorInfo # Null =>
         call.ret.errorInfo[1].type = FullValidation.errorInfo[1].type

\* C15: the narrow entry points agree with the full validation: for every
\* text and limit N, validateSize(T, N).isValid is the sizeValid of
\* validateJSON(T, {maxSize: N}); for every text that passes the size check,
\* validateSyntax(T) has the isValid, the error message and the diagnostic
\* category of validateJSON(T).
C15_NarrowAgreesWithFull == SizeAgrees /\ SyntaxAgrees

(***************************************************************************)
(* Properties of the formatter                                             *)
(***************************************************************************)
\* the requested width reads as no integer of the range 1..8
OutsideRange(v) ==
  ParseInt(v) = Null \/ ParseInt(v)[1] < 1 \/ ParseInt(v)[1] > IndentationCeiling

RECURSIVE LeadingSpaces(_)
LeadingSpaces(s) ==
  IF s # << >> /\ Head(s) = " " THEN 1 + LeadingSpaces(Tail(s)) ELSE 0

\* the number of spaces that start the second line of a text of several lines
SecondLineIndent(text) ==
  LET first == CHOOSE i \in DOMAIN text : text[i] = "\n" /\ \A j \in 1..(i - 1) : text[j] # "\n"
  IN  LeadingSpaces(SubSeq(text, first + 1, Len(text)))

SeveralLines(text) == \E i \in DOMAIN text : text[i] = "\n"

FormatOfValidWithWidthOutside ==
  /\ call.op = "formatJSON"
  /\ IsString(call.content)
  /\ JSONParse(call.content.s).ok
  /\ call.options.indentation # Null
  /\ OutsideRange(call.options.indentation[1])

\* C8 as stated: for a valid JSON text and a requested width outside 1..8,
\* formatJSON succeeds and indents its output with 2 spaces per level.
C8_OutOfRangeUsesTwoSpaces ==
  FormatOfValidWithWidthOutside =>
    /\ call.ret.success
    /\ call.ret.error = Null
    /\ call.ret.formatted = JSONStringify(JSONParse(call.content.s).val, 2)
    /\ SeveralLines(call.ret.formatted) => SecondLineIndent(call.ret.formatted) = 2

\* C8 amended: for a valid JSON text and a requested width that parseInt
\* reads as NaN or as an integer outside 1..8, formatJSON succeeds and
\* indents its output with the formatter's current defaultIndentation
\* spaces per level, which is 2 until setDefaultIndentation changes it and
\* is never less than 1.
C8_OutOfRangeUsesCurrentDefault ==
  FormatOfValidWithWidthOutside =>
    /\ call.ret.success
    /\ call.ret.error = Null
    /\ defaultIndentation >= 1
    /\ call.ret.formatted = JSONStringify(JSONParse(call.content.s).val, defaultIndentation)
    /\ SeveralLines(call.ret.formatted) =>
         SecondLineIndent(call.ret.formatted) = defaultIndentation

\* a width of 9 was requested for a nested document and the default was used
C8_Witness ==
  /\ FormatOfValidWithWidthOutside
  /\ call.options.indentation = Some(IndNumber(IndentationCeiling + 1))
  /\ call.ret.success
  /\ SeveralLines(call.ret.formatted)
  /\ SecondLineIndent(call.ret.formatted) = defaultIndentation

\* C9: the width formatJSON hands to the serializer lies in
\* 1..maxIndentation, whatever setDefaultIndentation, setMaxIndentation and
\* formatJSON calls came before.
C9_IndentationWithinMax ==
  (call.op = "formatJSON" /\ call.ret.indentation # Null) =>
    /\ call.ret.indentation[1] >= 1
    /\ call.ret.indentation[1] <= maxIndentation

\* the text minifyJSON gives for content, when it gives one
MinifiedText(content) == MinifyJSON(engine, content, 0)

\* C13: for every valid JSON text and every indentation width, minifying
\* the pretty-printed output gives the same text as minifying the text.
C13_MinifyOfFormatted ==
  (call.op = "formatJSON" /\ call.ret.success) =>
    /\ MinifiedText(call.content).success
    /\ MinifiedText(Str(call.ret.formatted)).success
    /\ MinifiedText(Str(call.ret.formatted)).minified = MinifiedText(call.content).minified

\* a text printed on several lines, itself not in minified form
C13_Witness ==
  /\ call.op = "formatJSON"
  /\ call.ret.success
  /\ SeveralLines(call.ret.formatted)
  /\ MinifiedText(call.content).minified # call.content.s
  /\ MinifiedText(Str(call.ret.formatted)).minified = MinifiedText(call.content).minified

\* C14: for every valid JSON text, parsing the minified output gives a
\* value deep-equal to the one parsing the text gives, key order included.
C14_MinifyPreservesValue ==
  (call.op = "minifyJSON" /\ call.ret.success) =>
    /\ JSONParse(call.ret.minified).ok
    /\ JSONParse(call.ret.minified).val = JSONParse(call.content.s).val

\* the output text of a formatJSON or minifyJSON result
OutputText == IF call.op = "formatJSON" THEN call.ret.formatted ELSE call.ret.minified

\* C16: formatJSON and minifyJSON, given a text that fails to parse, return
\* success FALSE, an empty output text and a structured diagnostic of
\* category syntax, the one the validator produces for the same text.
C16_ParseFailureCarriesDiagnostic ==
  (/\ call.op \in {"formatJSON", "minifyJSON"}
   /\ IsString(call.content)
   /\ ~Blank(call.content.s)
   /\ ~JSONParse(call.content.s).ok) =>
    /\ ~call.ret.success
    /\ OutputText = << >>
    /\ "errorInfo" \in DOMAIN call.ret
    /\ call.ret.errorInfo = ValidateSyntax(engine, call.content).errorInfo
    /\ call.ret.errorInfo[1].type = "syntax"

(***************************************************************************)
(* Properties of the processor                                             *)
(***************************************************************************)
PublicCalls ==
  {"validateJSON", "validateSyntax", "validateSize", "formatJSON", "minifyJSON",
   "processJSON", "processWithFormat", "getProcessingStats"}

\* C7: no public call of the validator, the formatter or the processor
\* throws, whatever the content, with options omitted or an object.
C7_NoPublicCallThrows ==
  (call.op \in PublicCalls /\ ~call.options.isNull) => ~call.threw

\* what validateJSON returns for the arguments processJSON hands it
ValidationOfCall ==
  ValidateJSON(maxSize, engine, call.content, Options(call.options.maxSize, Null), 0)

Factories == {"fromJSONError", "fromValidationError", "fromSizeError"}

\* C11: in every diagnostic a factory builds, line and column are both null
\* or both at least 1, and both are null when the position is 0 (so when
\* the message embeds no "position N") or the source text is empty.
C11_LineColumnTogether ==
  call.op \in Factories =>
    /\ (call.ret.line = Null) <=> (call.ret.column = Null)
    /\ call.ret.line # Null => call.ret.line[1] >= 1 /\ call.ret.column[1] >= 1
    /\ call.ret.position = 0 => call.ret.line = Null /\ call.ret.column = Null
    /\ (call.op = "fromJSONError" /\ PositionMatches(call.args.message) = {}) =>
         call.ret.position = 0
    /\ (call.op = "fromJSONError" /\ call.content.s = << >>) =>
         call.ret.line = Null /\ call.ret.column = Null

\* a diagnostic whose position lies on the second line of its text
C11_Witness ==
  /\ call.op = "fromJSONError"
  /\ call.ret.position > 0
  /\ call.ret.line = Some(2)
  /\ call.ret.column # Null

\* the line feeds among the first n characters of text
LineFeeds(text, n) == {i \in 1..n : text[i] = "\n"}

\* the index of the last of them, 0 when there is none
LastOf(indexes) == IF indexes = {} THEN 0 ELSE CHOOSE i \in indexes : \A j \in indexes : j <= i

\* C26: _calculateLineColumn(content, position) returns the line 1 + (the
\* number of line feeds among the first min(position, length) characters)
\* and the column 1 + (the number of characters scanned after the last of
\* them, or since the start); fromJSONError applies it exactly when the
\* extracted position is above 0 and content is not empty.
C26_LineColumnByCounting ==
  call.op = "fromJSONError" =>
    LET scanned == Min(call.ret.position, Len(call.content.s))
    IN  IF call.ret.position > 0 /\ call.content.s # << >>
        THEN /\ call.ret.line
                  = Some(1 + Cardinality(LineFeeds(call.content.s, scanned)))
             /\ call.ret.column
                  = Some(1 + scanned - LastOf(LineFeeds(call.content.s, scanned)))
        ELSE call.ret.line = Null /\ call.ret.column = Null

\* a position past the end of a text whose last scanned character is its
\* second line feed, after a character on the second line
C26_Witness ==
  /\ call.op = "fromJSONError"
  /\ call.ret.position > Len(call.content.s)
  /\ call.content.s = << "\n", "[", "\n" >>
  /\ call.ret.line = Some(3)
  /\ call.ret.column = Some(1)

TokenHint == Some("Check for missing commas, brackets, or quotes")
EndHint == Some("Check for missing closing brackets or quotes")
StringHint == Some("Check for unescaped quotes or special characters")
GenericHint == Some("Check JSON syntax for common errors like missing commas or brackets")

MentionsToken == Includes(call.args.message, << "unexpected", "token" >>)
MentionsEnd == Includes(call.args.message, << "unexpected", "end" >>)
MentionsString == Includes(call.args.message, << "unexpected", "string" >>)

\* C12: the suggestion of a syntax diagnostic follows the first rule that
\* matches the message, whatever its case: "unexpected token", then
\* "unexpected end", then "unexpected string", else the generic hint; the
\* hint about commas, brackets and quotes is given only for "unexpected token".
C12_SuggestionByFirstRule ==
  (call.op = "fromJSONError" /\ call.ret.type = "syntax") =>
    /\ MentionsToken => call.ret.suggestion = TokenHint
    /\ (~MentionsToken /\ MentionsEnd) => call.ret.suggestion = EndHint
    /\ (~MentionsToken /\ ~MentionsEnd /\ MentionsString) =>
         call.ret.suggestion = StringHint
    /\ (~MentionsToken /\ ~MentionsEnd /\ ~MentionsString) =>
         call.ret.suggestion = GenericHint
    /\ call.ret.suggestion = TokenHint => MentionsToken

\* a message in another case that matches two rules got the hint of the first
C12_Witness ==
  /\ call.op = "fromJSONError"
  /\ MentionsToken
  /\ MentionsEnd
  /\ call.args.message[2].w = "End"
  /\ call.ret.suggestion = TokenHint

\* what the timed sections of the steps a processJSON call ran add up to
TimeOfSteps ==
  (IF call.ret.validation = Null THEN 0 ELSE call.ret.validation[1].parseTime)
  + (IF call.ret.formatting = Null THEN 0 ELSE call.ret.formatting[1].formatTime)
  + (IF call.ret.minifying = Null THEN 0 ELSE call.ret.minifying[1].minifyTime)

\* C17: processJSON sets processingTime on every return path, to the sum of
\* the validation parse time and the format and minify times of the steps
\* it executed.
C17_ProcessingTimeIsSum ==
  call.op = "processJSON" => call.ret.processingTime = TimeOfSteps

\* C17, amended: processJSON sets processingTime on every return path, to
\* the time from its first clock reading to the return, which is never less
\* than the sum of the validation parse time and the format and minify
\* times of the steps it executed.
C17_ProcessingTimeCoversSteps ==
  call.op = "processJSON" =>
    /\ call.ret.processingTime \in Nat
    /\ call.ret.processingTime >= TimeOfSteps
    /\ (call.options.isNull <=> call.ret.calls = << >>)
    /\ call.ret.calls = << >> => TimeOfSteps = 0

\* a successful call whose three sections and whose remainder each took a tick
C17_Witness ==
  /\ call.op = "processJSON"
  /\ call.ret.success
  /\ TimeOfSteps = 3
  /\ call.ret.processingTime = 4

\* what processJSON can return for the arguments of the call
ProcessJSONResults ==
  {ProcessJSON(maxSize, defaultIndentation, maxIndentation, engine,
               call.content, call.options, times) : times \in Timings}

\* C18: processWithFormat returns the processJSON result; when processing
\* succeeded, output is the minified text for format 'minified' and the
\* formatted text for format 'formatted', and selectedFormat is format; when
\* processing failed, neither field is set.
C18_OutputFollowsFormat ==
  call.op = "processWithFormat" =>
    /\ call.ret.result \in ProcessJSONResults
    /\ call.ret.result.success =>
         /\ call.format = "minified" => call.ret.output = Some(call.ret.result.minified)
         /\ call.format = "formatted" => call.ret.output = Some(call.ret.result.formatted)
         /\ call.ret.selectedFormat = Some(call.format)
    /\ ~call.ret.result.success =>
         /\ call.ret.output = Null
         /\ call.ret.selectedFormat = Null

\* a successful call that asked for the minified text of a text whose two
\* outputs differ
C18_Witness ==
  /\ call.op = "processWithFormat"
  /\ call.format = "minified"
  /\ call.ret.result.success
  /\ call.ret.result.minified # call.ret.result.formatted
  /\ call.ret.output = Some(call.ret.result.minified)

C20_SizeTracksRawContent ==
  /\ document.size = BlobSize(document.rawContent)
  /\ IsString(document.rawContent) => document.size = ByteLength(document.rawContent.s)
  /\ call.op = "JSONDocument.validateSize" =>
       /\ call.options.maxSize # Null =>
            (call.ret <=> document.size <= call.options.maxSize[1])
       /\ call.options.maxSize = Null => (call.ret <=> document.size <= DocumentMaxSize)

\* a processed document whose text is one two-byte character, refused by
\* validateSize(1)
C20_Witness ==
  /\ call.op = "JSONDocument.validateSize"
  /\ call.options.maxSize = Some(1)
  /\ call.ret = FALSE
  /\ document.rawContent = Str(<< EAcute >>)
  /\ document.size = 2
  /\ document.formattedContent # EmptyString

\* C21: getContent('minified') returns minifiedContent when it is not empty
\* and rawContent otherwise; getContent with another format or with none
\* returns formattedContent when it is not empty and rawContent otherwise.
C21_GetContentFallsBack ==
  call.op = "getContent" =>
    IF call.args.format = Some("minified")
    THEN call.ret = (IF document.minifiedContent # EmptyString
                     THEN document.minifiedContent ELSE document.rawContent)
    ELSE call.ret = (IF document.formattedContent # EmptyString
                     THEN document.formattedContent ELSE document.rawContent)

\* getContent('minified') on a document with formatted text but no minified
\* text has returned the raw text
C21_Witness ==
  /\ call.op = "getContent"
  /\ call.args.format = Some("minified")
  /\ document.minifiedContent = EmptyString
  /\ document.formattedContent # EmptyString
  /\ document.rawContent = Str(<< "[" >>)
  /\ call.ret = document.rawContent

\* C22: in every state of a document reachable through its operations, a
\* valid document has no error: isValid = true implies errorMessage = null
\* and errorPosition = null.
C22_ErrorFieldsNullWhenValid ==
  document.isValid => document.errorMessage = Null /\ document.errorPosition = Null

(***************************************************************************)
(* Properties of the processing state                                      *)
(***************************************************************************)
\* C23: in every processing state reachable by startProcessing,
\* updateProgress, completeProcessing, cancelProcessing and reset, startTime
\* is null whenever isProcessing is false.
C23_IdleHasNoStartTime ==
  ~processingState.isProcessing => processingState.startTime = Null

(***************************************************************************)
(* Properties of the storage manager                                       *)
(***************************************************************************)
\* the rawContent of the stored entries, first entry first
RawContents(item) ==
  LET list == GetRecentDocuments(item)
  IN  [i \in DOMAIN list |-> Field(list[i], RawContentKey)]

\* the texts of list other than text, in their order
Others(list, text) == SelectSeq(list, LAMBDA entry : entry # text)

\* what a successful save of text makes of the rawContents before
KeptFirst(list) == SubSeq(list, 1, Min(MaxRecentDocs, Len(list)))

AfterSave(before, text) == KeptFirst(<< text >> \o Others(before, text))

Refused(content) ==
  \/ ~IsString(content)
  \/ Trim(content.s) = << >>
  \/ ByteLength(content.s) > MaxDocSize

StoredListBounded(raws) ==
  /\ Len(raws) <= MaxRecentDocs
  /\ \A i, j \in DOMAIN raws : i # j => raws[i] # raws[j]

\* C24: after any sequence of saveRecentDocument calls from an empty store,
\* the stored list holds at most 5 entries, no two of the same rawContent,
\* the most recently saved first; a sixth distinct document evicts the
\* oldest; an empty document or one of more than 10,000 bytes is refused
\* and leaves the list as it was.
C24_RecentDocuments ==
  /\ StoredListBounded(RawContents(recentDocsItem))
  /\ call.op = "saveRecentDocument" =>
       /\ Refused(call.content) => ~call.ret
       /\ IF call.ret
          THEN RawContents(recentDocsItem)
                 = AfterSave(RawContents(call.args.item), JString(call.content.s))
          ELSE recentDocsItem = call.args.item

\* a sixth distinct document, a text with a quote and a backslash in it, has
\* been saved to a full list and is its first entry
C24_Witness ==
  /\ call.op = "saveRecentDocument"
  /\ call.ret = TRUE
  /\ call.content = Str(<< "\"", "a", "\\", "\"" >>)
  /\ Len(RawContents(call.args.item)) = MaxRecentDocs
  /\ RawContents(call.args.item)[MaxRecentDocs] # JString(call.content.s)
  /\ \A i \in 1..MaxRecentDocs : RawContents(call.args.item)[i] # JString(call.content.s)
  /\ RawContents(recentDocsItem)[1] = JString(call.content.s)

(***************************************************************************)
(* Properties of the UI manager                                            *)
(***************************************************************************)
\* C25: showSuccess(message, duration) completes normally and leaves the
\* page in the success state: the success message visible, hasSuccess true,
\* hasError false, the error section hidden.
C25_ShowSuccessCompletes ==
  call.op = "showSuccess" =>
    /\ ~call.threw
    /\ ui.successVisible
    /\ ui.successText = call.args.message
    /\ ui.hasSuccess
    /\ ~ui.hasError
    /\ ~ui.errorVisible

(***************************************************************************)
(* The application                                                         *)
(***************************************************************************)
\* the output area shows what JSON.stringify makes, at some indentation, of
\* the value the text parsed to
OutputFromRaw(parsed) ==
  /\ parsed.ok
  /\ \E n \in 0..IndentationCeiling : ui.output = JSONStringify(parsed.val, n)

\* C27: the output area is empty or shows formatted or minified text made
\* from valid JSON in the document's raw content, never unprocessed input
C27_OutputIsProcessed ==
  \/ ui.output = << >>
  \/ /\ IsString(document.rawContent)
     /\ OutputFromRaw(JSONParse(document.rawContent.s))

\* handleFormat has returned after processing an input
FormatProcessed == call.op = "handleFormat" /\ call.ret # Null

\* C28: when handleFormat has returned after processing an input, the copy
\* button is enabled exactly if processing succeeded and the output area
\* holds the result
C28_CopyIffSucceeded ==
  FormatProcessed =>
    (ui.copyEnabled <=> (call.ret[1].result.success /\ ui.output = call.ret[1].output[1]))

\* C29: after handleFormat returns neither the processing state nor the page
\* is processing; a call that processed ended with completeProcessing and
\* updateProcessingState(false), and a call with blank input processed
\* nothing and left the document and the processing state as they were
C29_ProcessingEnds ==
  call.op = "handleFormat" =>
    /\ ~processingState.isProcessing
    /\ ~ui.isProcessing
    /\ (call.ret = Null) <=> (Trim(call.content.s) = << >>)
    /\ call.ret # Null =>
         /\ processingState.processingType = Some("format")
         /\ processingState.progress = 100
         /\ processingState.endTime # Null
         /\ ~ui.formatBtnDisabled
         /\ ~ui.processingClass
    /\ call.ret = Null =>
         /\ document = call.args.before[1].document
         /\ processingState = call.args.before[1].processingState

\* a successful processing whose showSuccess threw has returned
C29_Witness ==
  /\ FormatProcessed
  /\ call.ret[1].result.success
  /\ ui.errorContent = Words(<< "Formatting", "failed:" >>) \o HideErrorTypeError
  /\ call.args.before[1].processingState.endTime # Null
  /\ ~processingState.isProcessing

\* C30: at most one auto-format timer is pending, the one the last input
\* event armed, due 1000 ms after that event; a timer that runs handleFormat
\* does so no earlier than that, leaving no timer pending; with autoFormat
\* disabled no timer is armed and none runs handleFormat
C30_AutoFormatDebounced ==
  /\ Cardinality(timers.pending) <= 1
  /\ \A t \in timers.pending :
       /\ autoFormat
       /\ autoFormatTimeout = Some(t.id)
       /\ lastInputAt # Null
       /\ t.due = lastInputAt[1] + AutoFormatDelay
  /\ (call.op = "handleFormat" /\ call.args.timer # Null) =>
       /\ autoFormat
       /\ lastInputAt # Null
       /\ call.args.timer[1].due = lastInputAt[1] + AutoFormatDelay
       /\ clock >= lastInputAt[1] + AutoFormatDelay
       /\ timers.pending = {}

\* the timer of the second input event of a burst has run handleFormat
C30_Witness ==
  /\ FormatProcessed
  /\ call.args.timer # Null
  /\ call.args.timer[1].id = 2
  /\ lastInputAt = Some(1)
  /\ timers.pending = {}

====
